---- MODULE Spec2Model ----
(***************************************************************************)
(* Control-and-communication core of the differential-drive robot:         *)
(*   - the drivetrain on the motor-control unit (DiffDriveController,      *)
(*     Motor, PIDController, Encoder, TB6612 channel),                     *)
(*   - the host's command arbiter (CommandState),                          *)
(*   - the host's serial bridge (PiUartBridge),                            *)
(*   - the motor-control unit's serial link (PicoLowLevelLink).            *)
(* Each part has its own specification; the variables of the other parts   *)
(* stay at their constructed values.                                       *)
(*                                                                         *)
(* Units: times are milliseconds of time.ticks_ms(); wheel speeds are      *)
(* hundredths of an RPM (the code rounds RPM to two decimals); lengths are *)
(* millimetres; duty is the PWM duty count.                                *)
(***************************************************************************)
EXTENDS Integers, Sequences, FiniteSets, TLC

VARIABLES
    ticks,      \* time.ticks_ms() of the motor-control unit
    ctrl,       \* DiffDriveController fields
    motors,     \* side -> Motor (with its PIDController, Encoder, H-bridge channel)
    dops,       \* number of drivetrain operations performed (bounds the run)
    dlast,      \* what the last drivetrain operation did (observation only)
    dhist,      \* what the drivetrain operations so far did, and the position and
                \* locals of an update_rpm() call in progress
    driver,     \* TB6612Driver: the level of the STBY pin and the _enabled flag
    mono,       \* time.monotonic() of the host
    cs,         \* CommandState fields: teleop, auto, mode, telemetry
    lock,       \* CommandState._lock: the thread holding it, or "none"
    thr,        \* thread -> its position in a CommandState call and its locals
    acalls,     \* number of CommandState calls started so far
    hist,       \* source -> the (v, w) pairs given to it so far (observation only)
    chain,      \* what get_current_command() has returned (see NoChain)
                \* took effect (observation only)
    bridge,     \* PiUartBridge fields: _ser, _next_reconnect_ts, _last_send_ts, _last_sent
    hrx,        \* bytes waiting in the host's serial input
    pline,      \* bytes the serial peer has still to put on the line to the host
    blast,      \* what the PiUartBridge.step() in progress or just ended has done
    bops,       \* number of bridge steps and command updates so far
    bhist,      \* whether control_loop is still running, and when the link was last
                \* torn down and last opened (observation only)
    scen,       \* what is sent to the motor-control unit in this run (observation only)
    tape,       \* bytes that have still to reach the motor-control unit's UART
    uart_rx,    \* bytes the UART has received and uart.read() has not yet returned
    rx_buf,     \* PicoLowLevelLink._rx_buf
    plink,      \* PicoLowLevelLink fields: _last_cmd_v, _last_cmd_omega, e-stop requests
    pcalls,     \* the controller.update_cmd_vel(v, w) calls made so far, each with the
                \* frame that caused it
    delivered,  \* the (msg_id, payload) pairs _try_extract_packet() returned so far
    plast,      \* what the last poll_cmd() did (observation only)
    pseen       \* how the poll_cmd() calls so far ended (observation only)

driveVars == <<ticks, ctrl, motors, dops, dlast, dhist, driver>>

arbVars == <<mono, cs, lock, thr, acalls, hist, chain>>

bridgeVars == <<bridge, hrx, pline, blast, bops, bhist>>

linkVars == <<scen, tape, uart_rx, rx_buf, plink, pcalls, delivered, plast, pseen>>

picoVars == <<driveVars, linkVars>>

vars == <<ticks, ctrl, motors, dops, dlast, dhist, driver, mono, cs, lock, thr, acalls, hist, chain,
          bridge, hrx, pline, blast, bops, bhist,
          scen, tape, uart_rx, rx_buf, plink, pcalls, delivered, plast, pseen>>

-----------------------------------------------------------------------------
(* Generic helpers *)

Abs(x) == IF x < 0 THEN -x ELSE x

Min(a, b) == IF a < b THEN a ELSE b

Max(a, b) == IF a > b THEN a ELSE b

\* floor(n / d) for d > 0 and any n
FloorDiv(n, d) == IF n >= 0 THEN n \div d ELSE -((-n + d - 1) \div d)

\* A float of the code is kept as the exact rational it approximates.  The
\* rounding error of the float is far smaller than the spacing of the values
\* met here, so it shows only where the exact value lies on a boundary of
\* int() or round(): there the side the float falls on depends on the
\* operations that formed it and on the float format of the build (double
\* precision on CPython, single precision on the Pico's MicroPython).  err is
\* the sign of (float - exact value), 0 for a float that is exact.

\* x without its factors of two
RECURSIVE OddPart(_)
OddPart(x) == IF x # 0 /\ x % 2 = 0 THEN OddPart(x \div 2) ELSE x

\* n / d, d # 0, is a binary fraction: the float holding it is exact
Dyadic(n, d) == Abs(n) % Abs(OddPart(d)) = 0

\* The signs the error of a float can have
FloatErrs(exact) == IF exact THEN {0} ELSE {-1, 0, 1}

\* Python int(x) of the float x with exact value n / d and error sign err:
\* truncation toward zero, d > 0
TruncDiv(n, d, err) ==
    IF n % d # 0 THEN (IF n >= 0 THEN n \div d ELSE -((-n) \div d))
    ELSE IF n > 0 /\ err < 0 THEN n \div d - 1
    ELSE IF n < 0 /\ err > 0 THEN -((-n) \div d) + 1
    ELSE IF n >= 0 THEN n \div d ELSE -((-n) \div d)

\* Python round(x) to the nearest integer, ties to even, of the float x with
\* exact value n / d and error sign err; d > 0
RoundDiv(n, d, err) ==
    LET q == FloorDiv(n, d)
        r == n - q * d
    IN  IF 2 * r < d THEN q
        ELSE IF 2 * r > d THEN q + 1
        ELSE IF err < 0 THEN q
        ELSE IF err > 0 THEN q + 1
        ELSE IF q % 2 = 0 THEN q ELSE q + 1

\* n / d lies halfway between two integers, d > 0
IsTie(n, d) == n % d # 0 /\ (2 * n) % d = 0

RECURSIVE SumSeq(_)
SumSeq(s) ==
    IF Len(s) = 0 THEN 0
    ELSE IF Len(s) = 1 THEN s[1]
    ELSE LET h == Len(s) \div 2
         IN  SumSeq(SubSeq(s, 1, h)) + SumSeq(SubSeq(s, h + 1, Len(s)))

-----------------------------------------------------------------------------
(* Bounds and construction parameters of the drivetrain model *)

\* Half the period of time.ticks_ms(); ticks_diff is exact for differences
\* in [-TicksHalf, TicksHalf - 1].  (MicroPython: 2^29; reduced here.)
TicksHalf == 64

TICKS_PERIOD == 2 * TicksHalf

\* DiffDriveController(cmd_vel_timeout_ms=...)
cmd_vel_timeout_ms == 4

\* DiffDriveController(wheel_circumference=...), millimetres
wheel_circumference == 207

\* DiffDriveController(wheel_separation=...), millimetres
wheel_separation == 4

\* Motor(min_loop_ms=...)
min_loop_ms == 2

\* Encoder(ticks_per_rev=...), Encoder(window_ms=...)
ticks_per_rev == 6000

window_ms == 6

\* PIDController(...) as DriveSystem constructs it
Kp == 2

Ki == 1

Kd == 1

Kff == 1

offset == 2

slewrate == 3

duty_min == 2

duty_max == 9

\* Encoder._MIN_UPDATE_MS and Encoder._MAX_SAMPLES
MIN_UPDATE_MS == 5

MAX_SAMPLES == 64

\* Longest run of drivetrain operations explored
MaxDriveOps == 5

\* Largest |tick count| an encoder reaches in the model
MaxCount == 1

Sides == {"L", "R"}

\* Commanded body velocities (linear mm/s, angular rad/s) offered to update_cmd_vel
CmdSet == {<<0, 0>>, <<-10, 1>>}

\* Amounts by which the clock advances between operations
TickSteps == {cmd_vel_timeout_ms, cmd_vel_timeout_ms + 1, TicksHalf}

-----------------------------------------------------------------------------
(* time.ticks_diff(a, b) of MicroPython: the signed difference of two tick   *)
(* counter values, wrapped into [-TicksHalf, TicksHalf - 1].                 *)
ticks_diff(a, b) == ((a - b + TicksHalf) % TICKS_PERIOD) - TicksHalf

ticks_add(a, d) == (a + d) % TICKS_PERIOD

-----------------------------------------------------------------------------
(* driver.py: HBridgeChannel.  `writes` lists the duty values written to   *)
(* the PWM during the current operation and `braked` tells whether brake()   *)
(* ran in it (observation only).                                             *)

NewChannel == [dir |-> 0, duty |-> 0, in1 |-> 0, in2 |-> 0,
               writes |-> <<>>, braked |-> FALSE]

apply_direction(ch, rpm, invert) ==
    LET d0 == IF rpm >= 0 THEN 1 ELSE -1
        dir_flag == IF invert THEN -d0 ELSE d0
    IN  [ch EXCEPT !.in1 = IF dir_flag >= 0 THEN 1 ELSE 0,
                   !.in2 = IF dir_flag >= 0 THEN 0 ELSE 1,
                   !.dir = dir_flag]

set_duty(ch, duty) ==
    LET d == Max(0, Min(duty, 65535))
    IN  [ch EXCEPT !.duty = d, !.writes = Append(@, d)]

channel_brake(ch) ==
    [ch EXCEPT !.duty = 0, !.in1 = 1, !.in2 = 1, !.dir = 0,
               !.writes = Append(@, 0), !.braked = TRUE]

\* driver.py: TB6612Driver.  The constructor ends with enable()
NewDriver == [stby |-> 1, enabled |-> TRUE]

driver_enable(d) == [d EXCEPT !.stby = 1, !.enabled = TRUE]

\* brake() with no channel named: both channels
driver_brake(ms) == [s \in DOMAIN ms |-> [ms[s] EXCEPT !.chan = channel_brake(@)]]

\* disable(): brake() both channels, then STBY low
driver_disable(d, ms) ==
    [d |-> [d EXCEPT !.stby = 0, !.enabled = FALSE], ms |-> driver_brake(ms)]

\* TB6612Driver.emergency_stop(): brake(), then disable()
driver_emergency_stop(d, ms) == driver_disable(d, driver_brake(ms))

-----------------------------------------------------------------------------
(* pid.py: PIDController.  integral is in (RPM/100)*ms, last_error in      *)
(* RPM/100, last_output in duty counts.  integral_exact and error_exact say  *)
(* whether the floats integral and last_error are exact.  `computes` counts  *)
(* compute() calls of the current operation (observation only).              *)

NewPID == [integral |-> 0, last_error |-> 0, last_output |-> duty_min, computes |-> 0,
           integral_exact |-> TRUE, error_exact |-> TRUE]

PID_reset(p) ==
    [p EXCEPT !.integral = 0, !.last_error = 0, !.last_output = duty_min,
              !.integral_exact = TRUE, !.error_exact = TRUE]

\* compute(target, current, dt) with dt = dt_ms / 1000, up to the sum raw:
\* raw is the rational N / D of  Kp*e + Ki*integral + Kd*de/dt + Kff*target +
\* offset, and `exact` holds when every float operation that forms it is
\* exact: the arguments are binary fractions, and so are the error, the
\* product error * dt, the integral and the derivative.  pid is the
\* controller with the integral and the error stored.
PID_raw(p, target, current, dt_ms) ==
    LET error    == target - current
        integral == p.integral + error * dt_ms
        de       == error - p.last_error
        D        == IF dt_ms > 0 THEN 100000 * dt_ms ELSE 100000
        dtf      == IF dt_ms > 0 THEN dt_ms ELSE 1
        N        == Kp * error * 1000 * dtf
                    + Ki * integral * dtf
                    + (IF dt_ms > 0 THEN Kd * de * 1000000 ELSE 0)
                    + Kff * target * 1000 * dtf
                    + offset * 100000 * dtf
        tE       == Dyadic(target, 100)
        dtE      == Dyadic(dt_ms, 1000)
        eE       == error = 0 \/ (tE /\ Dyadic(current, 100))
        iE       == p.integral_exact
                    /\ (dt_ms = 0 \/ (eE /\ (error = 0 \/ dtE)))
        dE       == dt_ms <= 0
                    \/ (eE /\ p.error_exact
                           /\ (de = 0 \/ (dtE /\ Dyadic(10 * de, dt_ms))))
    IN  [N |-> N, D |-> D,
         exact |-> tE /\ eE /\ iE /\ dE,
         pid |-> [p EXCEPT !.integral = integral, !.last_error = error,
                           !.computes = @ + 1,
                           !.integral_exact = iE, !.error_exact = eE]]

\* The signs the error of the float raw can have where they matter: the
\* limits of the slew rate and of the clamp and the steps of int() are whole
\* numbers
PID_errs(r) == FloatErrs(r.exact \/ r.N % r.D # 0)

\* Slew-rate limiting of the float v (v.N / D, error sign v.s) against
\* last_output: the comparisons are made on the float, and a limit taken is
\* an exact float.  (delta = raw - last_output can lose the error of raw only
\* for a raw value below duty_min, which the clamp replaces.)
PID_slew(v, D, last_output) ==
    LET hi == (last_output + slewrate) * D
        lo == (last_output - slewrate) * D
    IN  IF v.N > hi \/ (v.N = hi /\ v.s > 0) THEN [N |-> hi, s |-> 0]
        ELSE IF v.N < lo \/ (v.N = lo /\ v.s < 0) THEN [N |-> lo, s |-> 0]
        ELSE v

\* max(min(raw, duty_max), duty_min) of the float v
PID_clamp(v, D) ==
    LET a == IF v.N > duty_max * D \/ (v.N = duty_max * D /\ v.s > 0)
             THEN [N |-> duty_max * D, s |-> 0] ELSE v
    IN  IF a.N < duty_min * D \/ (a.N = duty_min * D /\ a.s < 0)
        THEN [N |-> duty_min * D, s |-> 0] ELSE a

\* out = int(v); last_output = out; return out
PID_return(r, v) ==
    [pid |-> [r.pid EXCEPT !.last_output = TruncDiv(v.N, r.D, v.s)],
     out |-> TruncDiv(v.N, r.D, v.s)]

\* compute() without the slew-rate limit
PID_compute_no_slew(p, target, current, dt_ms) ==
    UNION {{PID_return(r, PID_clamp([N |-> r.N, s |-> s], r.D)) : s \in PID_errs(r)}
           : r \in {PID_raw(p, target, current, dt_ms)}}

\* compute() without the final clamp to [duty_min, duty_max]
PID_compute_unclamped(p, target, current, dt_ms) ==
    UNION {{PID_return(r, PID_slew([N |-> r.N, s |-> s], r.D, p.last_output))
              : s \in PID_errs(r)}
           : r \in {PID_raw(p, target, current, dt_ms)}}

\* compute(target, current, dt): the results the call can have, each the
\* controller it leaves and the duty it returns.  There is one result unless
\* raw is a whole number formed by inexact float operations.
PID_compute(p, target, current, dt_ms) ==
    UNION {{PID_return(r, PID_clamp(PID_slew([N |-> r.N, s |-> s], r.D, p.last_output), r.D))
              : s \in PID_errs(r)}
           : r \in {PID_raw(p, target, current, dt_ms)}}

-----------------------------------------------------------------------------
(* encoder.py: Encoder.  _rpm is kept as the exact rational n / d in       *)
(* RPM/100 with the error sign err of the float, which is recorded where     *)
(* round(_rpm, 2) depends on it; last_edge_ms = -1 stands for None.          *)

\* _rpm = 0.0
ZeroRpm == [n |-> 0, d |-> 1, err |-> 0]

NewEncoder(now) ==
    [count |-> 0, samples |-> <<>>, last_time |-> now, last_count |-> 0,
     rpm |-> ZeroRpm, last_update_ms |-> now, last_edge_ms |-> -1,
     last_delta_ticks |-> 0, no_pulses_window |-> FALSE]

\* property ticks: the signed tick count since the last reset
Encoder_ticks(e) == e.count

\* property rpm: round(abs(_rpm), 2), in RPM/100
Encoder_rpm(e) ==
    RoundDiv(Abs(e.rpm.n), e.rpm.d, IF e.rpm.n < 0 THEN -e.rpm.err ELSE e.rpm.err)

\* property signed_rpm: round(_rpm, 2), in RPM/100
Encoder_signed_rpm(e) == RoundDiv(e.rpm.n, e.rpm.d, e.rpm.err)

\* revs = total_ticks / ticks_per_rev, mins = (total_time_ms / 1000.0) / 60.0
\* and revs / mins are all exact floats
Encoder_rpm_exact(total_ticks, total_time) ==
    \/ total_ticks = 0
    \/ /\ Dyadic(total_ticks, ticks_per_rev)
       /\ Dyadic(total_time, 1000)
       /\ Dyadic(total_time, 60000)
       /\ Dyadic(total_ticks * 60000, ticks_per_rev * total_time)

\* _rpm = revs / mins if mins > 0 else 0.0: the values update_rpm() can store.
\* There is one unless the quotient lies halfway between two hundredths and
\* was formed by inexact float operations.
Encoder_rpm_values(total_ticks, total_time) ==
    IF total_time <= 0 THEN {ZeroRpm}
    ELSE {[n |-> total_ticks * 6000000, d |-> ticks_per_rev * total_time, err |-> s]
            : s \in IF IsTie(Abs(total_ticks) * 6000000, ticks_per_rev * total_time)
                    THEN FloatErrs(Encoder_rpm_exact(total_ticks, total_time))
                    ELSE {0}}

RECURSIVE DropOld(_, _)
DropOld(samples, now) ==
    IF samples # <<>> /\ ticks_diff(now, Head(samples)[1]) > window_ms
    THEN DropOld(Tail(samples), now)
    ELSE samples

\* reset() has three parts, and the edge interrupt, which writes _count and
\* _last_edge_ms, can come before, between and after them, as can a tick of
\* the clock.  The first part: `_count = 0` and `_samples.clear()`
Encoder_reset_count(e) == [e EXCEPT !.count = 0, !.samples = <<>>]

\* reset() from `now = time.ticks_ms()` up to `_last_update_ms = now`
Encoder_reset_begin(e, now) ==
    [e EXCEPT !.last_time = now, !.last_count = 0, !.rpm = ZeroRpm,
              !.last_update_ms = now]

\* The rest of reset(), from `_last_edge_ms = None` on
Encoder_reset_finish(e) ==
    [e EXCEPT !.last_edge_ms = -1, !.last_delta_ticks = 0,
              !.no_pulses_window = FALSE]

\* reset() when neither an edge interrupt nor a tick of the clock comes while
\* it runs
Encoder_reset(e, now) ==
    Encoder_reset_finish(Encoder_reset_begin(Encoder_reset_count(e), now))

\* The locals of update_rpm() when no call is in progress
NoLocals == [due |-> FALSE, now_ms |-> 0, dt_ms |-> 0, curr_count |-> 0]

\* update_rpm() from its read of the clock to the test of dt_ms: the locals
\* now_ms and dt_ms, and whether the update is due (when it is not, the call
\* returns the cached value at once)
Encoder_update_begin(e, now) ==
    [due |-> ticks_diff(now, e.last_time) >= MIN_UPDATE_MS, now_ms |-> now,
     dt_ms |-> ticks_diff(now, e.last_time), curr_count |-> 0]

\* update_rpm(): `curr_count = self._count`, its one read of _count
Encoder_update_read(e, loc) == [loc EXCEPT !.curr_count = e.count]

\* update_rpm() reading _count a second time when it stores _last_count
Encoder_update_commit_rereads(e, loc) ==
    LET delta == loc.curr_count - e.last_count
        s1 == Append(e.samples, <<loc.now_ms, delta, loc.dt_ms>>)
        s2 == IF Len(s1) > MAX_SAMPLES THEN Tail(s1) ELSE s1
        s3 == DropOld(s2, loc.now_ms)
        total_ticks == SumSeq([i \in 1..Len(s3) |-> s3[i][2]])
        total_time  == SumSeq([i \in 1..Len(s3) |-> s3[i][3]])
    IN  {[e EXCEPT !.samples = s3, !.last_count = e.count,
                   !.last_time = loc.now_ms,
                   !.rpm = rpm,
                   !.no_pulses_window = (total_ticks = 0),
                   !.last_update_ms = loc.now_ms,
                   !.last_delta_ticks = delta]
           : rpm \in Encoder_rpm_values(total_ticks, total_time)}

\* update_rpm() after its read of _count, with the locals loc of that call:
\* the encoders the call can leave
Encoder_update_commit(e, loc) ==
    LET delta == loc.curr_count - e.last_count
        s1 == Append(e.samples, <<loc.now_ms, delta, loc.dt_ms>>)
        s2 == IF Len(s1) > MAX_SAMPLES THEN Tail(s1) ELSE s1
        s3 == DropOld(s2, loc.now_ms)
        total_ticks == SumSeq([i \in 1..Len(s3) |-> s3[i][2]])
        total_time  == SumSeq([i \in 1..Len(s3) |-> s3[i][3]])
    IN  {[e EXCEPT !.samples = s3, !.last_count = loc.curr_count,
                   !.last_time = loc.now_ms,
                   !.rpm = rpm,
                   !.no_pulses_window = (total_ticks = 0),
                   !.last_update_ms = loc.now_ms,
                   !.last_delta_ticks = delta]
           : rpm \in Encoder_rpm_values(total_ticks, total_time)}

\* update_rpm() when neither an edge interrupt nor a tick of the clock comes
\* while it runs
Encoder_update_rpm(e, now) ==
    IF ~Encoder_update_begin(e, now).due THEN {e}
    ELSE Encoder_update_commit(e, Encoder_update_read(e, Encoder_update_begin(e, now)))

\* get_diagnostics() up to last_update_age_ms: the locals now_ms and
\* last_update_age_ms.  The edge interrupt, which writes _count and
\* _last_edge_ms, can come between the read of the clock, the test of
\* _last_edge_ms, the read of _last_edge_ms and the read of _count.
Encoder_diag_begin(e, now) ==
    [now_ms |-> now,
     last_update_age_ms |-> ticks_diff(now, e.last_update_ms),
     edge_seen |-> FALSE,
     last_edge_age_ms |-> <<>>]

\* get_diagnostics(): the test `self._last_edge_ms is not None`
Encoder_diag_test(e, loc) == [loc EXCEPT !.edge_seen = e.last_edge_ms # -1]

\* get_diagnostics(): the local last_edge_age_ms, <<>> standing for None and
\* <<age>> for an age
Encoder_diag_edge_age(e, loc) ==
    [loc EXCEPT !.last_edge_age_ms =
        IF loc.edge_seen THEN <<ticks_diff(loc.now_ms, e.last_edge_ms)>> ELSE <<>>]

\* get_diagnostics() from stale_rpm on: the fields of the returned dict that
\* depend on the clock or on the edge interrupt
Encoder_get_diagnostics(e, loc) ==
    [ticks |-> e.count,
     last_update_age_ms |-> loc.last_update_age_ms,
     last_edge_age_ms |-> loc.last_edge_age_ms,
     stale_rpm |-> loc.last_update_age_ms > 3 * window_ms]

\* An IRQ handler that counts every edge upwards
Encoder_on_edge_up_only(e, a, b, now) ==
    [e EXCEPT !.count = @ + 1, !.last_edge_ms = now]

\* IRQ handler on an edge of channel A, with the sampled levels a and b
Encoder_on_edge(e, a, b, now) ==
    [e EXCEPT !.count = IF a = b THEN @ + 1 ELSE @ - 1,
              !.last_edge_ms = now]

-----------------------------------------------------------------------------
(* motor.py: Motor *)

NewMotor(now) ==
    [target_rpm |-> 0, last_time |-> now, invert |-> FALSE,
     controller |-> NewPID, encoder |-> NewEncoder(now), chan |-> NewChannel]

\* the target_rpm setter
Motor_set_target_rpm(m, rpm) ==
    LET c1 == apply_direction(m.chan, rpm, m.invert)
        m1 == [m EXCEPT !.chan = c1, !.target_rpm = Abs(rpm)]
    IN  IF rpm = 0
        THEN [m1 EXCEPT !.chan = set_duty(c1, 0),
                        !.controller = PID_reset(m.controller)]
        ELSE m1

\* The locals of step() when no call is in progress: whether the control law
\* is to run, now and dt_ms, and the locals of the update_rpm() call it makes
NoStepLocals == [run |-> FALSE, now |-> 0, dt_ms |-> 0, enc |-> NoLocals]

\* step() without the idle case: it runs the control law at a zero target
Motor_step_begin_NoIdleCase(m, now) ==
    [run |-> ticks_diff(now, m.last_time) >= min_loop_ms, now |-> now,
     dt_ms |-> ticks_diff(now, m.last_time), enc |-> NoLocals]

\* step() has a step of its own for each read of the clock and for its read
\* of the tick count, which the edge interrupt writes.  The first: it reads
\* the clock and returns at once when called too early or with a zero target
Motor_step_begin(m, now) ==
    [run |-> ~(ticks_diff(now, m.last_time) < min_loop_ms \/ m.target_rpm = 0),
     now |-> now, dt_ms |-> ticks_diff(now, m.last_time), enc |-> NoLocals]

\* step(): encoder.update_rpm() reads the clock and tests whether it is due
Motor_step_update_rpm(m, loc, now) ==
    [loc EXCEPT !.enc = Encoder_update_begin(m.encoder, now)]

\* step(): update_rpm() reads _count
Motor_step_read(m, loc) == [loc EXCEPT !.enc = Encoder_update_read(m.encoder, @)]

\* The rest of step(): update_rpm() appends its sample and recomputes the
\* RPM, or returns the cached RPM when it was not due; then compute(),
\* set_duty() and `_last_time = now`.  The motors the call can leave
Motor_step_finish(m, loc) ==
    UNION {{[m EXCEPT !.encoder = e1, !.controller = r.pid,
                      !.chan = set_duty(m.chan, r.out), !.last_time = loc.now]
              : r \in PID_compute(m.controller, m.target_rpm, Encoder_rpm(e1),
                                  loc.dt_ms)}
           : e1 \in IF loc.enc.due THEN Encoder_update_commit(m.encoder, loc.enc)
                    ELSE {m.encoder}}

\* step() when neither an edge interrupt nor a tick of the clock comes while
\* it runs
Motor_step_uninterrupted(m, loc) ==
    Motor_step_finish(m, IF loc.enc.due THEN Motor_step_read(m, loc) ELSE loc)

\* step(): the motors the call can leave
Motor_step(m, now) ==
    IF ~Motor_step_begin(m, now).run THEN {m}
    ELSE Motor_step_uninterrupted(m,
             Motor_step_update_rpm(m, Motor_step_begin(m, now), now))

Motor_brake(m) ==
    LET m1 == Motor_set_target_rpm(m, 0)
    IN  [m1 EXCEPT !.chan = channel_brake(m1.chan)]

\* Motor.emergency_stop() of the motor on side s: the target_rpm setter with
\* zero, then the driver's emergency_stop()
Motor_emergency_stop(d, ms, s) ==
    driver_emergency_stop(d, [ms EXCEPT ![s] = Motor_set_target_rpm(@, 0)])

\* drive_distance(): pulses = int(abs(distance_m) / distance_per_pulse), with
\* the distance and the distance per pulse in micrometres: the values pulses
\* can take.  The floats distance_m and distance_per_pulse and their quotient
\* are exact when they are binary fractions.
drive_pulses(distance, dpp) ==
    {TruncDiv(Abs(distance), dpp, s)
       : s \in FloatErrs(distance = 0 \/ Abs(distance) % dpp # 0
                           \/ (Dyadic(distance, 1000000) /\ Dyadic(dpp, 1000000)))}

\* drive_distance() from the rest of encoder.reset() up to its loop: then
\* controller.reset() and the target_rpm setter
drive_distance_begin(m, rpm) ==
    Motor_set_target_rpm([m EXCEPT !.encoder = Encoder_reset_finish(@),
                                   !.controller = PID_reset(@)], rpm)

\* The timeout test of the loop: elapsed_ms >= int(timeout_s * 1000)
drive_distance_timed_out(start_ms, timeout_ms, now) ==
    ticks_diff(now, start_ms) >= timeout_ms

\* time.sleep_ms(5) at the end of each pass of the loop
loop_sleep_ms == 5

\* The observation fields of a motor cleared at the start of an operation
Fresh(m) == [m EXCEPT !.chan.writes = <<>>, !.chan.braked = FALSE,
                      !.controller.computes = 0]

-----------------------------------------------------------------------------
(* differential_drivetrain.py: DiffDriveController.  last_target_rpm holds *)
(* the unrounded targets as numerators over wheel_circumference, in RPM/100; *)
(* last_linear_vel and last_angular_vel are numerators over 12000 (mm/s) and *)
(* 6000 * wheel_separation (rad/s).                                          *)

NewCtrl(now) ==
    [linear |-> 0, angular |-> 0, last_cmd_time |-> now,
     last_target_rpm |-> <<0, 0>>, last_actual_rpm |-> <<0, 0>>,
     timeout_flag |-> FALSE, last_linear_vel |-> 0, last_angular_vel |-> 0]

\* compute_wheel_rpms: numerators of the two wheel speeds in RPM/100 over
\* wheel_circumference:  rpm = (v -/+ omega * L * 0.5) * 60 / C
wheel_rpm_num(c) ==
    <<(2 * c.linear - c.angular * wheel_separation) * 3000,
      (2 * c.linear + c.angular * wheel_separation) * 3000>>

\* The floats of compute_wheel_rpms() that lead to the wheel speed n / C
\* (velocities in m/s, lengths in m) are exact: the command, L, C and the
\* quotient are binary fractions
wheel_rpm_exact(c, n, C) ==
    /\ Dyadic(c.linear, 1000)
    /\ c.angular = 0 \/ Dyadic(wheel_separation, 1000)
    /\ Dyadic(C, 1000)
    /\ Dyadic(n, 100 * C)

\* round(rpm, 2) of the wheel speed n / C, C # 0, in RPM/100: the values it
\* can take.  There is one unless the speed lies halfway between two
\* hundredths and was formed by inexact float operations.
wheel_rpm_rounded(c, n, C) ==
    {IF C > 0 THEN RoundDiv(n, C, s) ELSE RoundDiv(-n, -C, s)
       : s \in IF IsTie(Abs(n), Abs(C)) THEN FloatErrs(wheel_rpm_exact(c, n, C))
               ELSE {0}}

\* compute_wheel_rpms(): the pairs it can return
compute_wheel_rpms(c) ==
    {<<l, r>> : l \in wheel_rpm_rounded(c, wheel_rpm_num(c)[1], wheel_circumference),
                r \in wheel_rpm_rounded(c, wheel_rpm_num(c)[2], wheel_circumference)}

\* _compute_body_velocities(l_rpm, r_rpm)
compute_body_velocities(l_rpm, r_rpm) ==
    <<(l_rpm + r_rpm) * wheel_circumference,
      IF wheel_separation # 0 THEN (r_rpm - l_rpm) * wheel_circumference ELSE 0>>

\* DiffDriveController.__init__(wheel_circumference=C): the geometry is stored
\* as given, and the controller is constructed whatever C is
construct_controller(C, now) ==
    [constructed |-> TRUE, C |-> C, c |-> NewCtrl(now)]

\* compute_wheel_rpms() of a controller built with circumference C: the
\* outcomes it can have, each the pair returned, rounded to two decimals, or
\* ZeroDivisionError
compute_wheel_rpms_with(c, C) ==
    IF C = 0 THEN {[raised |-> "ZeroDivisionError", rpm |-> <<0, 0>>]}
    ELSE {[raised |-> "none", rpm |-> <<l, r>>]
            : l \in wheel_rpm_rounded(c, wheel_rpm_num(c)[1], C),
              r \in wheel_rpm_rounded(c, wheel_rpm_num(c)[2], C)}

\* _compute_body_velocities(l_rpm, r_rpm) of a controller built with
\* circumference C: numerators over 12000 (mm/s) and 6000 * wheel_separation
compute_body_velocities_with(l_rpm, r_rpm, C) ==
    <<(l_rpm + r_rpm) * C,
      IF wheel_separation # 0 THEN (r_rpm - l_rpm) * C ELSE 0>>

\* stop_motors(brake): zero both targets, step both motors, brake, reset
\* telemetry: the results the call can have
stop_motors(c, ms, brake, now) ==
    {[c |-> [c EXCEPT !.last_target_rpm = <<0, 0>>, !.last_actual_rpm = <<0, 0>>,
                      !.last_linear_vel = 0, !.last_angular_vel = 0],
      ms |-> [s \in Sides |-> IF s = "L" THEN (IF brake THEN Motor_brake(l1) ELSE l1)
                                         ELSE (IF brake THEN Motor_brake(r1) ELSE r1)]]
       : l1 \in Motor_step(Motor_set_target_rpm(ms["L"], 0), now),
         r1 \in Motor_step(Motor_set_target_rpm(ms["R"], 0), now)}

\* The timeout test of update_motors
timed_out(c, now) == ticks_diff(now, c.last_cmd_time) > cmd_vel_timeout_ms

\* update_motors() when the command has timed out: the flag is set and the
\* motors are stopped with the brake.  The step() calls of stop_motors()
\* find a zero target and return whatever the clock shows, and nothing it does
\* reads what the edge interrupt writes
update_motors_timeout(c, ms, now) ==
    {[c |-> r.c, ms |-> r.ms, branch |-> "timeout", kinematics |-> FALSE]
       : r \in stop_motors([c EXCEPT !.timeout_flag = TRUE], ms, TRUE, now)}

\* update_motors() from compute_wheel_rpms() up to the step() calls: the
\* setpoints are computed, which stores the unrounded ones, and pushed to the
\* motors
update_motors_setpoints(c, ms) ==
    {[c |-> [c EXCEPT !.last_target_rpm = wheel_rpm_num(c)],
      ms |-> [s \in Sides |-> Motor_set_target_rpm(ms[s], rpm[IF s = "L" THEN 1 ELSE 2])],
      branch |-> "run", kinematics |-> TRUE]
       : rpm \in compute_wheel_rpms(c)}

\* update_motors() without `self._timeout_flag = False`: the flag set by a
\* timeout stays set when a fresh command is executed
update_motors_begin_keeps_flag(c, ms, now) ==
    IF timed_out(c, now) THEN update_motors_timeout(c, ms, now)
    ELSE update_motors_setpoints(c, ms)

\* update_motors() up to its step() calls: it reads the clock and either
\* takes the timeout, which ends the call, or clears the flag and pushes the
\* setpoints.  The results it can have, each [c, ms, branch, kinematics],
\* where kinematics tells whether compute_wheel_rpms() was called
update_motors_begin(c, ms, now) ==
    IF timed_out(c, now) THEN update_motors_timeout(c, ms, now)
    ELSE update_motors_setpoints([c EXCEPT !.timeout_flag = FALSE], ms)

\* The end of update_motors(), once both motors have been stepped: the
\* actuals are captured and the body velocities computed from them
update_motors_capture(c, ms) ==
    [c EXCEPT !.last_actual_rpm = <<Encoder_signed_rpm(ms["L"].encoder),
                                    Encoder_signed_rpm(ms["R"].encoder)>>,
              !.last_linear_vel =
                  compute_body_velocities(Encoder_signed_rpm(ms["L"].encoder),
                                          Encoder_signed_rpm(ms["R"].encoder))[1],
              !.last_angular_vel =
                  compute_body_velocities(Encoder_signed_rpm(ms["L"].encoder),
                                          Encoder_signed_rpm(ms["R"].encoder))[2]]

\* DriveFeedbackStatusFlags.COMMAND_TIMEOUT
COMMAND_TIMEOUT == 1

\* get_drive_feedback(): the snapshot sent as telemetry
get_drive_feedback(c, ms) ==
    [v_meas |-> c.last_linear_vel,
     omega_meas |-> c.last_angular_vel,
     left_ticks |-> Encoder_ticks(ms["L"].encoder),
     right_ticks |-> Encoder_ticks(ms["R"].encoder),
     left_rpm |-> c.last_actual_rpm[1],
     right_rpm |-> c.last_actual_rpm[2],
     status_flags |-> IF c.timeout_flag THEN COMMAND_TIMEOUT ELSE 0]

\* What the last operation was.  For update_motors(), while it is in progress
\* (op "busy") and once it has returned (op "update_motors"): the branch it
\* took, the tick-counter difference it computed, whether it called
\* compute_wheel_rpms(), the duties and the flag it found, and the time that
\* had really elapsed since the last update_cmd_vel() when it read the clock
NoDriveOp == [op |-> "none", branch |-> "none", diff |-> 0, kinematics |-> FALSE,
              prev_duty |-> <<0, 0>>, prev_flag |-> FALSE, elapsed |-> 0]

\* Nothing to remember yet: update_motors() has not taken its timeout since
\* the last update_cmd_vel(); elapsed is the time since the last
\* update_cmd_vel() (or the construction), followed up to one millisecond
\* past the timeout; pc is the position inside the update_motors() call in
\* progress, side the motor whose step() it is in and loc that step()'s locals
NoDriveHist == [latched |-> FALSE, was_latched |-> FALSE, elapsed |-> 0,
                pc |-> "idle", side |-> "L", loc |-> NoStepLocals]

\* The motor-control unit just constructed, nothing done yet
DriveAtRest ==
    /\ ticks = 0
    /\ ctrl = NewCtrl(0)
    /\ motors = [s \in Sides |-> NewMotor(0)]
    /\ dops = 0
    /\ dlast = NoDriveOp
    /\ driver = NewDriver
    /\ dhist = NoDriveHist

-----------------------------------------------------------------------------
(* command_state.py: CommandState, the host's command arbiter.  Host times  *)
(* are in units of a quarter of a second.                                    *)

\* CommandState(teleop_timeout=..., auto_timeout=...)
\* PiUartBridge(heartbeat_s=..., reconnect_interval_s=...)
heartbeat_s == 2

reconnect_interval_s == 3

teleop_timeout == 2

auto_timeout == 3

\* The host clock is followed up to MaxMono; from then on the epoch is moved
\* along with it (see HostTick).
\* How far the clock can advance during one call
MaxStale == 1

\* How many bridge steps one run of the bridge specification begins
MaxBridgeOps == 2

\* How many times in one run the clock advances while a step() of the bridge
\* is in progress
MaxLate == 1

MaxMono == Max(auto_timeout, Max(heartbeat_s, reconnect_interval_s)) + MaxStale + 1

\* How many CommandState calls one run makes
MaxCalls == 4

\* "web": the web server's handlers (update_teleop, get_status_snapshot and
\* the /current_command endpoint, which calls get_current_command);
\* "nav": the autonomy client (update_auto); "loop": the bridge's control loop
\* (get_current_command)
Threads == {"web", "nav", "loop"}

\* The threads that call get_current_command()
Callers == {"web", "loop"}

\* (v_cmd, w_cmd) pairs offered to update_teleop / update_auto, in units of
\* 8e-5 m/s and 8e-5 rad/s: (0.7, -2.5) and (0.2, 0.5)
CmdPairs(s) == IF s = "teleop" THEN {<<8750, -31250>>} ELSE {<<2500, 6250>>}

NewSource == [v_cmd |-> 0, w_cmd |-> 0, last_update_ts |-> 0, active |-> FALSE]

NewTelemetry == [values |-> <<>>, last_update_ts |-> 0, valid |-> FALSE]

NewCommandState ==
    [teleop |-> NewSource, auto |-> NewSource, mode |-> "idle",
     telemetry |-> NewTelemetry]

\* age < timeout, the test _recompute_mode_locked applies to one source
source_active(src, timeout, now) == now - src.last_update_ts < timeout

\* _recompute_mode_locked(now)
recompute_mode_skipped(c, now) == c

recompute_mode(c, now) ==
    LET teleop_active == source_active(c.teleop, teleop_timeout, now)
        auto_active   == source_active(c.auto, auto_timeout, now)
    IN  [c EXCEPT !.teleop.active = teleop_active,
                  !.auto.active = auto_active,
                  !.mode = IF teleop_active THEN "teleop"
                           ELSE IF auto_active THEN "auto"
                           ELSE "idle"]

\* `with self._lock`: the lock can be taken when no thread holds it
can_acquire_always(owner) == TRUE

can_acquire(owner) == owner = "none"

\* What a step() of the bridge has done, while it is in progress (op "busy")
\* and once it has ended (op "step"): the clock value it read first, whether
\* the link was up, whether an open was attempted, the arbiter's mode, the
\* clamped command, why a frame was written ("first", "change", "heartbeat")
\* or "none", the frame, whether ser.write returned, how the telemetry read
\* ended, whether the step left the link torn down, whether an exception left
\* step(); last_sent and the send time as the step found them; the frame
\* whose write failed before it, if any; and, while the step is in progress,
\* the clock value read by the CommandState call it is making and the header
\* and the payload read so far
NoBridgeOp == [op |-> "none", now |-> 0, link_up |-> FALSE, attempted |-> FALSE,
               mode |-> "none", cmd |-> <<>>, why |-> "none", frame |-> <<>>,
               written |-> FALSE, read |-> "none", torn |-> FALSE, raised |-> FALSE,
               prev_sent |-> <<>>, prev_send_ts |-> 0, unsent |-> <<>>,
               call_now |-> 0, header |-> <<>>, payload |-> <<>>]

RankOf(m) == IF m = "teleop" THEN 2 ELSE IF m = "auto" THEN 1 ELSE 0

\* Observation of get_current_command(), whichever thread called it:
\* floor[s] is the lowest priority among the modes the calls have returned
\* since the last update of source s came into effect; updated[s] tells
\* whether an update of source s has come into effect
NoChain == [floor |-> [s \in {"teleop", "auto"} |-> RankOf("teleop")],
            updated |-> [s \in {"teleop", "auto"} |-> FALSE]]

NewThread == [call |-> "none", pc |-> "idle", now |-> 0, arg |-> <<0, 0>>,
              src |-> "none", v |-> 0, w |-> 0, ret |-> <<>>]

ArbiterAtRest ==
    /\ mono = 0
    /\ cs = NewCommandState
    /\ lock = "none"
    /\ thr = [t \in Threads |-> NewThread]
    /\ acalls = 0
    /\ hist = [s \in {"teleop", "auto"} |-> {<<0, 0>>}]
    /\ chain = NoChain

\* The host clock advances by one unit, at most MaxStale units during one
\* call.  The code uses only differences of times, each compared with a
\* timeout below MaxMono; past MaxMono the epoch moves with the clock, and a
\* time more than MaxMono old is kept as MaxMono old.
Shift(x) == Max(x - 1, 0)

\* A time of the link's history as far back as it is told apart: the history
\* keeps times between events only up to reconnect_interval_s
Recent(x, now) == Max(x, now - reconnect_interval_s)

HostTick ==
    /\ \A t \in Threads : thr[t].pc = "idle" \/ mono - thr[t].now < MaxStale
    /\ thr["loop"].call = "step" => bhist.late < MaxLate
    /\ bops < MaxBridgeOps \/ thr["loop"].pc # "idle"
    /\ IF mono < MaxMono
       THEN /\ mono' = mono + 1
            /\ UNCHANGED <<cs, thr, bridge>>
            /\ blast' = IF thr["loop"].call = "step" THEN blast ELSE NoBridgeOp
            /\ bhist' = [bhist EXCEPT !.torn_at = Recent(@, mono + 1),
                                      !.open_at = Recent(@, mono + 1),
                                      !.late = IF thr["loop"].call = "step"
                                               THEN @ + 1 ELSE @]
       ELSE /\ mono' = mono
            /\ cs' = [cs EXCEPT !.teleop.last_update_ts = Shift(@),
                                !.auto.last_update_ts = Shift(@),
                                !.telemetry.last_update_ts = Shift(@)]
            /\ thr' = [t \in Threads |->
                         IF thr[t].pc = "idle" THEN thr[t]
                         ELSE [thr[t] EXCEPT !.now = Shift(@)]]
            /\ blast' = IF thr["loop"].call = "step"
                        THEN [blast EXCEPT !.now = Shift(@), !.call_now = Shift(@),
                                           !.prev_send_ts = Shift(@)]
                        ELSE NoBridgeOp
            /\ bridge' = [bridge EXCEPT !.next_reconnect_ts = Shift(@),
                                        !.last_send_ts = Shift(@)]
            /\ bhist' = [bhist EXCEPT !.torn_at = Recent(Shift(@), mono),
                                      !.open_at = Recent(Shift(@), mono),
                                      !.late = IF thr["loop"].call = "step"
                                               THEN @ + 1 ELSE @]
    /\ UNCHANGED <<lock, acalls, hist, chain>>
    /\ UNCHANGED <<picoVars, hrx, pline, bops>>

\* A call starts: it reads the clock, then waits for the lock.
Call(t, call, arg) ==
    /\ thr[t].pc = "idle"
    /\ acalls < MaxCalls
    /\ acalls' = acalls + 1
    /\ thr' = [thr EXCEPT ![t] = [NewThread EXCEPT !.call = call, !.pc = "acquire",
                                                   !.now = mono, !.arg = arg]]
    /\ UNCHANGED <<mono, cs, lock>>
    /\ UNCHANGED <<picoVars, bridgeVars>>

Acquire(t, call, first) ==
    /\ thr[t].call = call
    /\ thr[t].pc = "acquire"
    /\ can_acquire(lock)
    /\ lock' = t
    /\ thr' = [thr EXCEPT ![t].pc = first]
    /\ UNCHANGED <<mono, cs, acalls, hist, chain>>
    /\ UNCHANGED <<picoVars, bridgeVars>>

\* One statement of a call, made while holding the lock
Stmt(t, call, pc, next, newcs, newthr) ==
    /\ thr[t].call = call
    /\ thr[t].pc = pc
    /\ cs' = newcs
    /\ thr' = [thr EXCEPT ![t] = [newthr EXCEPT !.pc = next]]
    /\ UNCHANGED <<mono, lock, acalls, hist, chain>>
    /\ UNCHANGED <<picoVars, bridgeVars>>

\* The end of the `with` block and the return
Release(t, call) ==
    /\ thr[t].call = call
    /\ thr[t].pc = "release"
    /\ lock' = "none"
    /\ thr' = [thr EXCEPT ![t] = NewThread]
    /\ UNCHANGED <<mono, cs, acalls, hist>>
    /\ UNCHANGED <<picoVars, bridgeVars>>

\* update_teleop(v, w) and update_auto(v, w)
Update(t, s) ==
    LET call == "update_" \o s IN
    \/ \E p \in CmdPairs(s) :
          /\ Call(t, call, p)
          /\ hist' = [hist EXCEPT ![s] = @ \cup {p}]
          /\ UNCHANGED chain
    \/ Acquire(t, call, "set_v")
    \/ Stmt(t, call, "set_v", "set_w", [cs EXCEPT ![s].v_cmd = thr[t].arg[1]], thr[t])
    \/ Stmt(t, call, "set_w", "set_ts", [cs EXCEPT ![s].w_cmd = thr[t].arg[2]], thr[t])
    \/ Stmt(t, call, "set_ts", "set_active",
            [cs EXCEPT ![s].last_update_ts = thr[t].now], thr[t])
    \/ Stmt(t, call, "set_active", "recompute", [cs EXCEPT ![s].active = TRUE], thr[t])
    \/ Stmt(t, call, "recompute", "release", recompute_mode(cs, thr[t].now), thr[t])
    \/ /\ Release(t, call)
       /\ chain' = [floor |-> [chain.floor EXCEPT ![s] = RankOf("teleop")],
                    updated |-> [chain.updated EXCEPT ![s] = TRUE]]

update_teleop(t) == Update(t, "teleop")

update_auto(t) == Update(t, "auto")

\* get_current_command(): ret becomes <<v, w, mode>>
get_current_command(t) ==
    LET call == "get_current_command" IN
    \/ /\ Call(t, call, <<0, 0>>)
       /\ UNCHANGED <<hist, chain>>
    \/ Acquire(t, call, "recompute")
    \/ Stmt(t, call, "recompute", "select", recompute_mode(cs, thr[t].now), thr[t])
    \/ /\ cs.mode = "teleop"
       /\ Stmt(t, call, "select", "read_v", cs, [thr[t] EXCEPT !.src = "teleop"])
    \/ /\ cs.mode = "auto"
       /\ Stmt(t, call, "select", "read_v", cs, [thr[t] EXCEPT !.src = "auto"])
    \/ /\ cs.mode \notin {"teleop", "auto"}
       /\ Stmt(t, call, "select", "release", cs, [thr[t] EXCEPT !.ret = <<0, 0, "idle">>])
    \/ Stmt(t, call, "read_v", "read_w", cs, [thr[t] EXCEPT !.v = cs[thr[t].src].v_cmd])
    \/ Stmt(t, call, "read_w", "read_mode", cs, [thr[t] EXCEPT !.w = cs[thr[t].src].w_cmd])
    \/ Stmt(t, call, "read_mode", "release", cs,
            [thr[t] EXCEPT !.ret = <<thr[t].v, thr[t].w, cs.mode>>])
    \/ /\ Release(t, call)
       /\ chain' = [floor |-> [s \in {"teleop", "auto"} |->
                                 Min(chain.floor[s], RankOf(thr[t].ret[3]))],
                    updated |-> chain.updated]

\* get_status_snapshot(): ret becomes <<mode, teleop v, teleop w, teleop
\* active, auto v, auto w, auto active>>
get_status_snapshot(t) ==
    LET call == "get_status_snapshot" IN
    \/ /\ Call(t, call, <<0, 0>>)
       /\ UNCHANGED <<hist, chain>>
    \/ Acquire(t, call, "recompute")
    \/ Stmt(t, call, "recompute", "s_mode", recompute_mode(cs, thr[t].now), thr[t])
    \/ Stmt(t, call, "s_mode", "s_tv", cs, [thr[t] EXCEPT !.ret = <<cs.mode>>])
    \/ Stmt(t, call, "s_tv", "s_tw", cs, [thr[t] EXCEPT !.ret = Append(@, cs.teleop.v_cmd)])
    \/ Stmt(t, call, "s_tw", "s_ta", cs, [thr[t] EXCEPT !.ret = Append(@, cs.teleop.w_cmd)])
    \/ Stmt(t, call, "s_ta", "s_av", cs, [thr[t] EXCEPT !.ret = Append(@, cs.teleop.active)])
    \/ Stmt(t, call, "s_av", "s_aw", cs, [thr[t] EXCEPT !.ret = Append(@, cs.auto.v_cmd)])
    \/ Stmt(t, call, "s_aw", "s_aa", cs, [thr[t] EXCEPT !.ret = Append(@, cs.auto.w_cmd)])
    \/ Stmt(t, call, "s_aa", "release", cs, [thr[t] EXCEPT !.ret = Append(@, cs.auto.active)])
    \/ /\ Release(t, call)
       /\ UNCHANGED chain

-----------------------------------------------------------------------------
(* command_state.py as the control loop sees it when no other thread is     *)
(* inside CommandState: each call runs from its clock reading to its return. *)

\* update_teleop(v, w) / update_auto(v, w) at clock value now
apply_update(c, s, p, now) ==
    recompute_mode([c EXCEPT ![s] = [v_cmd |-> p[1], w_cmd |-> p[2],
                                     last_update_ts |-> now, active |-> TRUE]], now)

\* get_current_command() at clock value now: the state left behind and the
\* triple returned
current_command(c, now) ==
    LET c1 == recompute_mode(c, now)
    IN  [cs |-> c1,
         ret |-> IF c1.mode = "teleop" THEN <<c1.teleop.v_cmd, c1.teleop.w_cmd, c1.mode>>
                 ELSE IF c1.mode = "auto" THEN <<c1.auto.v_cmd, c1.auto.w_cmd, c1.mode>>
                 ELSE <<0, 0, "idle">>]

\* update_telemetry(*values) at clock value now
update_telemetry(c, values, now) ==
    [c EXCEPT !.telemetry = [values |-> values, last_update_ts |-> now, valid |-> TRUE]]

-----------------------------------------------------------------------------
(* uart_bridge.py: PiUartBridge.  Velocities are in units of 8e-5 m/s and   *)
(* 8e-5 rad/s; a float32 on the wire is its four bytes.                      *)

START1 == 170

START2 == 85

MSG_ID_VELOCITY == 1

MSG_ID_TELEMETRY == 2

\* struct.calcsize("!ff") and struct.calcsize("!fffffffffff")
PAYLOAD_LEN == 8

TELEMETRY_LEN == 44

\* max_linear_mps = 0.6, max_angular_rps = 2.0
max_linear_mps == 7500

max_angular_rps == 25000

\* abs(x - y) > 1e-4.  1e-4 is five quarters of a unit, so two whole numbers
\* of units never differ by as much as the rounding of the floating-point
\* subtraction could decide: one unit apart is within 1e-4, two are beyond
differs(x, y) == 4 * Abs(x - y) > 5

\* Room in the host's serial input
RxCap == 56


Zeros(n) == [i \in 1..n |-> 0]

\* struct.pack("!f", x) for the velocities the bridge can be given
pack_f32(x) ==
    CASE x = 0 -> <<0, 0, 0, 0>>
      [] x = 1 -> <<56, 167, 197, 172>>
      [] x = 2500 -> <<62, 76, 204, 205>>
      [] x = 6250 -> <<63, 0, 0, 0>>
      [] x = 7500 -> <<63, 25, 153, 154>>
      [] x = 8750 -> <<63, 51, 51, 51>>
      [] x = -25000 -> <<192, 0, 0, 0>>
      [] x = -31250 -> <<192, 32, 0, 0>>

\* struct.unpack("!fffffffffff", payload): the eleven floats, each as its bytes
unpack_telemetry(payload) ==
    [i \in 1..(TELEMETRY_LEN \div 4) |-> SubSeq(payload, 4 * i - 3, 4 * i)]

NewBridge == [ser |-> "none", next_reconnect_ts |-> 0, last_send_ts |-> 0,
              last_sent |-> <<>>]

\* _ensure_serial(now); open_ok tells whether serial.Serial(...) succeeds
ensure_serial_at_once(b, now, open_ok) ==
    IF b.ser = "open" THEN [b |-> b, attempted |-> FALSE]
    ELSE [b |-> [b EXCEPT !.ser = IF open_ok THEN "open" ELSE "none",
                          !.next_reconnect_ts = now + reconnect_interval_s],
          attempted |-> TRUE]

ensure_serial(b, now, open_ok) ==
    IF b.ser = "open" THEN [b |-> b, attempted |-> FALSE]
    ELSE IF now < b.next_reconnect_ts THEN [b |-> b, attempted |-> FALSE]
    ELSE [b |-> [b EXCEPT !.ser = IF open_ok THEN "open" ELSE "none",
                          !.next_reconnect_ts = now + reconnect_interval_s],
          attempted |-> TRUE]

\* _clamp(v, w)
clamp_off(v, w) == <<v, w>>

clamp(v, w) ==
    <<Max(-max_linear_mps, Min(max_linear_mps, v)),
      Max(-max_angular_rps, Min(max_angular_rps, w))>>

\* _calc_checksum(msg_id, length, payload)
host_calc_checksum_payload_only(msg_id, length, payload) == SumSeq(payload) % 256

host_calc_checksum(msg_id, length, payload) ==
    (msg_id + ((length \div 256) % 256) + (length % 256) + SumSeq(payload)) % 256

\* _build_packet(msg_id, payload)
host_build_packet(msg_id, payload) ==
    LET length == Len(payload)
    IN  <<START1, START2, msg_id, (length \div 256) % 256, length % 256>>
        \o payload \o <<host_calc_checksum(msg_id, length, payload)>>

\* The send decision of step()
should_send_on_change(b, v, w, now) ==
    IF b.last_sent = <<>> THEN TRUE
    ELSE differs(v, b.last_sent[1]) \/ differs(w, b.last_sent[2])

should_send_first_or_heartbeat(b, v, w, now) ==
    IF b.last_sent = <<>> THEN TRUE
    ELSE now - b.last_send_ts >= heartbeat_s

should_send(b, v, w, now) ==
    IF b.last_sent = <<>> THEN TRUE
    ELSE \/ differs(v, b.last_sent[1])
         \/ differs(w, b.last_sent[2])
         \/ now - b.last_send_ts >= heartbeat_s

\* _send_velocity with the bookkeeping outside the try block: last_sent and
\* the send time are set whether or not ser.write raised
send_velocity_records_on_failure(b, v, w, now, write_ok) ==
    LET frame == host_build_packet(MSG_ID_VELOCITY, pack_f32(v) \o pack_f32(w))
        b1 == [b EXCEPT !.last_send_ts = now, !.last_sent = <<v, w>>]
    IN  [frame |-> frame,
         b |-> IF write_ok THEN b1 ELSE [b1 EXCEPT !.ser = "none"]]

\* _send_velocity(ser, v, w); write_ok tells whether ser.write succeeds
send_velocity(b, v, w, now, write_ok) ==
    LET frame == host_build_packet(MSG_ID_VELOCITY, pack_f32(v) \o pack_f32(w))
    IN  [frame |-> frame,
         b |-> IF write_ok
               THEN [b EXCEPT !.last_send_ts = now, !.last_sent = <<v, w>>]
               ELSE [b EXCEPT !.ser = "none"]]

\* What a serial call does: it returns ("ok"), raises SerialException
\* ("serial_error"), or raises something _read_telemetry does not catch
\* ("other_error")
serial_failure(b, kind) ==
    IF kind = "other_error" THEN [b |-> b, outcome |-> "raised"]
    ELSE [b |-> [b EXCEPT !.ser = "none"], outcome |-> "error"]

\* _read_telemetry up to its first serial call: ser.in_waiting < 7
telemetry_in_waiting(b, rx, kind) ==
    IF kind # "ok" THEN serial_failure(b, kind)
    ELSE IF Len(rx) < 7 THEN [b |-> b, outcome |-> "short"]
    ELSE [b |-> b, outcome |-> "header"]

\* header = ser.read(5) and the tests of the header
telemetry_header(b, rx, kind) ==
    IF kind # "ok" THEN serial_failure(b, kind) @@ [rx |-> rx, header |-> <<>>]
    ELSE
      LET n      == Min(5, Len(rx))
          header == SubSeq(rx, 1, n)
          rest   == SubSeq(rx, n + 1, Len(rx))
      IN  [b |-> b, rx |-> rest, header |-> header,
           outcome |-> IF n # 5 THEN "short_header"
                       ELSE IF header[1] # START1 \/ header[2] # START2 THEN "bad_start"
                       ELSE IF header[4] * 256 + header[5] # TELEMETRY_LEN THEN "bad_length"
                       ELSE "body"]

\* payload_and_chk = ser.read(length + 1), the checksum test and the message
\* id test
telemetry_body(b, rx, header, kind) ==
    IF kind # "ok" THEN serial_failure(b, kind) @@ [rx |-> rx, payload |-> <<>>]
    ELSE
      LET msg_id  == header[3]
          length  == header[4] * 256 + header[5]
          n       == Min(length + 1, Len(rx))
          body    == SubSeq(rx, 1, n)
          rest    == SubSeq(rx, n + 1, Len(rx))
          payload == SubSeq(body, 1, n - 1)
      IN  [b |-> b, rx |-> rest, payload |-> payload,
           outcome |-> IF n # length + 1 THEN "incomplete"
                       ELSE IF body[n] # host_calc_checksum(msg_id, length, payload)
                       THEN "bad_checksum"
                       ELSE IF msg_id = MSG_ID_TELEMETRY THEN "accepted"
                       ELSE "ignored"]

send_reason(b, v, w, now) ==
    IF ~should_send(b, v, w, now) THEN "none"
    ELSE IF b.last_sent = <<>> THEN "first"
    ELSE IF differs(v, b.last_sent[1]) \/ differs(w, b.last_sent[2]) THEN "change"
    ELSE "heartbeat"

\* The frame step() writes for the command (v, w)
velocity_frame(v, w) == host_build_packet(MSG_ID_VELOCITY, pack_f32(v) \o pack_f32(w))

\* Payloads of the telemetry frames the serial peer sends: a battery voltage
\* of 12.0, every other reading zero
TelemetryPayloads == {Zeros(16) \o <<65, 64, 0, 0>> \o Zeros(24)}

\* Bytes left in the host's serial input by whatever preceded the stream
JunkSet == {<<>>, <<0>>}

\* How many bytes reach the host's serial input at once
ChunkSizes == {20, TELEMETRY_LEN + 6}

\* Nothing has happened to the link yet; a time between two events is -1
\* while there is no earlier event; late counts the times the clock advanced
\* while a step was in progress; unsent is the frame whose write raised in the
\* latest step that came to its send decision
NewBridgeHist == [loop |-> "running", late |-> 0, torn |-> FALSE, torn_at |-> 0,
                  tried |-> FALSE, open_at |-> 0, since_torn |-> -1, since_open |-> -1,
                  unsent |-> <<>>]

\* What an attempt to open the port, made by a step that read the clock at
\* now, adds to the link's history; times between events are kept up to
\* reconnect_interval_s
note_open(h, now) ==
    [h EXCEPT !.tried = TRUE, !.open_at = now,
              !.since_open = IF h.tried THEN Min(now - h.open_at, reconnect_interval_s)
                             ELSE -1,
              !.since_torn = IF h.torn THEN Min(Max(now - h.torn_at, 0), reconnect_interval_s)
                             ELSE -1]

\* A failed write or read has torn the link down at clock value now
note_torn(h, now) == [h EXCEPT !.torn = TRUE, !.torn_at = now]

BridgeAtRest ==
    /\ bhist = NewBridgeHist
    /\ bridge = NewBridge
    /\ hrx = <<>>
    /\ pline = <<>>
    /\ blast = NoBridgeOp
    /\ bops = 0

\* The thread that calls update_teleop (the web server) or update_auto (the
\* autonomy client)
Caller(s) == IF s = "teleop" THEN "web" ELSE "nav"

\* update_teleop / update_auto is called: it reads the clock, then waits for
\* the lock
HCall(s, p) ==
    /\ thr[Caller(s)].pc = "idle"
    /\ thr' = [thr EXCEPT ![Caller(s)] =
                  [NewThread EXCEPT !.call = "update_" \o s, !.pc = "acquire",
                                    !.now = mono, !.arg = p]]
    /\ acalls' = acalls + 1
    /\ blast' = IF thr["loop"].call = "step" THEN blast ELSE NoBridgeOp
    /\ UNCHANGED <<mono, cs, lock, hist, chain>>
    /\ UNCHANGED <<bridge, hrx, pline, bhist, bops>>
    /\ UNCHANGED picoVars

\* The call gets the lock and runs to its return with the clock value it read
HUpdate(s) ==
    /\ thr[Caller(s)].pc = "acquire"
    /\ cs' = apply_update(cs, s, thr[Caller(s)].arg, thr[Caller(s)].now)
    /\ thr' = [thr EXCEPT ![Caller(s)] = NewThread]
    /\ blast' = IF thr["loop"].call = "step" THEN blast ELSE NoBridgeOp
    /\ UNCHANGED <<mono, lock, acalls, hist, chain>>
    /\ UNCHANGED <<bridge, hrx, pline, bhist, bops>>
    /\ UNCHANGED picoVars

\* The control loop's step() goes on to pc, having done st
StepOn(pc, st) ==
    /\ thr' = [thr EXCEPT !["loop"].pc = pc]
    /\ blast' = st

\* step() returns, or an exception leaves it and ends control_loop and the
\* thread running it: obs tells what the step did
StepEnds(obs) ==
    /\ thr' = [thr EXCEPT !["loop"] = NewThread]
    /\ blast' = [obs EXCEPT !.op = "step", !.call_now = 0, !.header = <<>>,
                            !.payload = <<>>]

\* An action of the step that leaves the arbiter and the serial input alone
BridgeOnly == UNCHANGED <<mono, cs, lock, acalls, hist, chain, hrx, pline>> /\ UNCHANGED picoVars

\* One pass of control_loop begins: bridge.step(cmd_state) reads the clock and
\* calls _ensure_serial(now)
BBegin(open_ok) ==
    /\ bhist.loop = "running"
    /\ thr["loop"].pc = "idle"
    /\ LET e   == ensure_serial(bridge, mono, open_ok)
           obs == [NoBridgeOp EXCEPT !.now = mono, !.attempted = e.attempted,
                                     !.link_up = e.b.ser = "open",
                                     !.prev_sent = bridge.last_sent,
                                     !.prev_send_ts = bridge.last_send_ts,
                                     !.unsent = bhist.unsent]
       IN  /\ bridge' = e.b
           /\ bhist' = IF e.attempted THEN note_open(bhist, mono) ELSE bhist
           /\ IF e.b.ser = "open"
              THEN /\ thr' = [thr EXCEPT !["loop"] =
                                 [NewThread EXCEPT !.call = "step", !.pc = "command",
                                                   !.now = mono]]
                   /\ blast' = [obs EXCEPT !.op = "busy"]
              ELSE /\ UNCHANGED thr
                   /\ blast' = [obs EXCEPT !.op = "step"]
    /\ BridgeOnly

\* cmd_state.get_current_command() is called: it reads the clock, then waits
\* for the lock
BCommandCall ==
    /\ thr["loop"].pc = "command"
    /\ StepOn("command_body", [blast EXCEPT !.call_now = mono])
    /\ UNCHANGED <<bridge, bhist>>
    /\ BridgeOnly

\* get_current_command() gets the lock and returns; _clamp and the send
\* decision, made with the clock value step() read
BCommand ==
    /\ thr["loop"].pc = "command_body"
    /\ LET st   == blast
           g    == current_command(cs, st.call_now)
           vw   == clamp(g.ret[1], g.ret[2])
           send == should_send(bridge, vw[1], vw[2], thr["loop"].now)
       IN  /\ cs' = g.cs
           /\ StepOn(IF send THEN "send" ELSE "in_waiting",
                     [st EXCEPT !.mode = g.ret[3], !.cmd = vw,
                                !.why = send_reason(bridge, vw[1], vw[2],
                                                    thr["loop"].now)])
           /\ bhist' = IF send THEN bhist ELSE [bhist EXCEPT !.unsent = <<>>]
    /\ UNCHANGED bridge
    /\ UNCHANGED <<mono, lock, acalls, hist, chain, hrx, pline>>
    /\ UNCHANGED picoVars

\* _send_velocity: ser.write and, when it returns, the clock read again
BSend(write_ok) ==
    /\ thr["loop"].pc = "send"
    /\ LET st == blast
           s  == send_velocity(bridge, st.cmd[1], st.cmd[2], mono, write_ok)
       IN  /\ bridge' = s.b
           /\ bhist' = IF s.b.ser = "open" THEN [bhist EXCEPT !.unsent = <<>>]
                       ELSE [note_torn(bhist, mono) EXCEPT !.unsent = s.frame]
           /\ StepOn("in_waiting", [st EXCEPT !.frame = s.frame,
                                              !.written = s.b.ser = "open"])
    /\ BridgeOnly

\* One serial call of _read_telemetry has been made and what it led to is
\* outcome: the step goes on to the next call or ends
AfterRead(b, st, outcome, next) ==
    /\ bridge' = b
    /\ IF outcome = next
       THEN /\ StepOn(next, st)
            /\ UNCHANGED bhist
       ELSE /\ StepEnds([st EXCEPT !.read = outcome, !.torn = b.ser # "open",
                                   !.raised = outcome = "raised"])
            /\ bhist' = [(IF b.ser # "open" /\ bridge.ser = "open"
                          THEN note_torn(bhist, mono) ELSE bhist)
                            EXCEPT !.loop = IF outcome = "raised" THEN "dead" ELSE "running"]

\* _read_telemetry begins: ser.in_waiting.  After a failed write it is read on
\* the port that was just closed: it raises, and which exception it raises is
\* up to the serial library
BInWaiting(read_ok, closed_read) ==
    /\ thr["loop"].pc = "in_waiting"
    /\ LET r == telemetry_in_waiting(bridge, hrx,
                                     IF bridge.ser # "open" THEN closed_read
                                     ELSE IF read_ok THEN "ok" ELSE "serial_error")
       IN  AfterRead(r.b, blast, r.outcome, "header")
    /\ BridgeOnly

\* ser.read(5)
BReadHeader(read_ok) ==
    /\ thr["loop"].pc = "header"
    /\ LET r == telemetry_header(bridge, hrx, IF read_ok THEN "ok" ELSE "serial_error")
       IN  /\ hrx' = r.rx
           /\ AfterRead(r.b, [blast EXCEPT !.header = r.header],
                        r.outcome, "body")
    /\ UNCHANGED <<mono, cs, lock, acalls, hist, chain, pline>>
    /\ UNCHANGED picoVars

\* ser.read(length + 1); when the frame is a good telemetry frame,
\* cmd_state.update_telemetry(*telemetry) is called: it reads the clock, then
\* waits for the lock
BReadBody(read_ok) ==
    /\ thr["loop"].pc = "body"
    /\ LET r == telemetry_body(bridge, hrx, blast.header,
                               IF read_ok THEN "ok" ELSE "serial_error")
       IN  /\ hrx' = r.rx
           /\ AfterRead(r.b, [blast EXCEPT !.payload = r.payload,
                                            !.call_now = mono],
                        r.outcome, "accepted")
    /\ UNCHANGED <<mono, cs, lock, acalls, hist, chain, pline>>
    /\ UNCHANGED picoVars

\* update_telemetry() gets the lock and returns, and step() returns
BTelemetry ==
    /\ thr["loop"].pc = "accepted"
    /\ LET st == blast
       IN  /\ cs' = update_telemetry(cs, unpack_telemetry(st.payload), st.call_now)
           /\ StepEnds([st EXCEPT !.read = "accepted"])
    /\ UNCHANGED <<bridge, bhist>>
    /\ UNCHANGED <<mono, lock, acalls, hist, chain, hrx, pline>>
    /\ UNCHANGED picoVars

\* The serial peer starts sending one more telemetry frame
PeerEmit(payload) ==
    /\ pline = <<>>
    /\ pline' = host_build_packet(MSG_ID_TELEMETRY, payload)
    /\ UNCHANGED <<bridge, hrx, blast, bops, bhist>>
    /\ UNCHANGED <<arbVars, picoVars>>

\* The next bytes of the frame reach the host's serial input
PeerDeliver(k) ==
    /\ pline # <<>>
    /\ LET n == Min(k, Len(pline))
       IN  /\ Len(hrx) + n <= RxCap
           /\ hrx' = hrx \o SubSeq(pline, 1, n)
           /\ pline' = SubSeq(pline, n + 1, Len(pline))
    /\ UNCHANGED <<bridge, blast, bops, bhist>>
    /\ UNCHANGED <<arbVars, picoVars>>

-----------------------------------------------------------------------------
(* pico_uart_comm.py: PicoLowLevelLink, and proto.py: VelocityCommandPayload. *)
(* A byte buffer is a sequence of 0..255; a float32 is its four bytes; None   *)
(* as a message id is -1.                                                     *)

MSG_ID_VELOCITY_CMD == 1

MSG_ID_CLEAR_ESTOP_CMD == 2

\* proto.CommandType
SET_VELOCITY == 0

STOP == 1

EMERGENCY_STOP == 2

\* struct.calcsize("!Id") and struct.calcsize("!BffffI")
HEADER_SIZE == 12

VELOCITY_BODY_SIZE == 21

\* struct.calcsize("!I"), the body of ClearEstopPayload
CLEAR_ESTOP_BODY_SIZE == 4

ZeroF32 == <<0, 0, 0, 0>>

\* _calc_checksum(data)
pico_calc_checksum_unwrapped(data) == SumSeq(data)

pico_calc_checksum(data) == SumSeq(data) % 256

\* _build_packet(msg_id, payload)
pico_build_packet(msg_id, payload) ==
    LET length == Len(payload)
        header == <<START1, START2, msg_id, (length \div 256) % 256, length % 256>>
    IN  header \o payload \o <<pico_calc_checksum(SubSeq(header, 3, 5) \o payload)>>

NewLink == [last_cmd_v |-> ZeroF32, last_cmd_omega |-> ZeroF32,
            estop_triggered |-> FALSE, clear_requested |-> FALSE]

\* the hunt for the start bytes at the head of _try_extract_packet
RECURSIVE hunt_start(_)
hunt_start(buf) ==
    IF Len(buf) >= 2 /\ ~(buf[1] = START1 /\ buf[2] = START2)
    THEN hunt_start(Tail(buf))
    ELSE buf

\* total_len = 2 + 1 + 2 + length + 1
frame_total_len_without_checksum(length) == 2 + 1 + 2 + length

frame_total_len(length) == 2 + 1 + 2 + length + 1

\* chk == calc, for a frame cut from the buffer
checksum_ignored(frame) == TRUE

checksum_matches(frame) ==
    frame[Len(frame)] = pico_calc_checksum(SubSeq(frame, 3, Len(frame) - 1))

\* _try_extract_packet(): the buffer left behind, the (msg_id, payload)
\* returned, how the call ended, the buffer as it was at the candidate's start
\* bytes, and the bytes cut out as a frame
try_extract_packet(buf0) ==
    LET buf    == hunt_start(buf0)
        none   == [buf |-> buf, msg_id |-> -1, payload |-> <<>>, kind |-> "short",
                   cand |-> buf, frame |-> <<>>]
    IN  IF Len(buf) < 5 THEN none
        ELSE
          LET length    == buf[4] * 256 + buf[5]
              total_len == frame_total_len(length)
              frame     == SubSeq(buf, 1, total_len)
              rest      == SubSeq(buf, total_len + 1, Len(buf))
          IN  IF Len(buf) < total_len THEN [none EXCEPT !.kind = "incomplete"]
              ELSE IF ~checksum_matches(frame)
              THEN [none EXCEPT !.buf = rest, !.kind = "checksum_error", !.frame = frame]
              ELSE [buf |-> rest, msg_id |-> buf[3], payload |-> SubSeq(frame, 6, total_len - 1),
                    kind |-> "frame", cand |-> buf, frame |-> frame]

\* _handle_velocity_command(payload); frame is the frame the payload came in,
\* kept with each update_cmd_vel call
handle_velocity_command(link, calls, payload, frame) ==
    IF Len(payload) < HEADER_SIZE + VELOCITY_BODY_SIZE
    THEN [link |-> link, calls |-> calls]
    ELSE
      LET cmd_type == payload[HEADER_SIZE + 1]
          v        == SubSeq(payload, HEADER_SIZE + 2, HEADER_SIZE + 5)
          omega    == SubSeq(payload, HEADER_SIZE + 6, HEADER_SIZE + 9)
          link1    == [link EXCEPT !.last_cmd_v = v, !.last_cmd_omega = omega]
      IN  IF cmd_type = SET_VELOCITY
          THEN [link |-> link1, calls |-> Append(calls, [v |-> v, w |-> omega, frame |-> frame])]
          ELSE IF cmd_type = STOP
          THEN [link |-> link1,
                calls |-> Append(calls, [v |-> ZeroF32, w |-> ZeroF32, frame |-> frame])]
          ELSE IF cmd_type = EMERGENCY_STOP
          THEN [link |-> [link1 EXCEPT !.estop_triggered = TRUE],
                calls |-> Append(calls, [v |-> ZeroF32, w |-> ZeroF32, frame |-> frame])]
          ELSE [link |-> link1, calls |-> calls]

\* _handle_clear_estop(payload): the request reaches the e-stop manager
handle_clear_estop(link, calls, payload) ==
    IF Len(payload) < HEADER_SIZE + CLEAR_ESTOP_BODY_SIZE
    THEN [link |-> link, calls |-> calls]
    ELSE [link |-> [link EXCEPT !.clear_requested = TRUE], calls |-> calls]

\* the loop of poll_cmd(): extract and dispatch until an extraction returns None
RECURSIVE poll_loop(_, _, _, _)
poll_loop(buf, link, calls, got) ==
    LET x == try_extract_packet(buf) IN
    IF x.msg_id = -1
    THEN [buf |-> x.buf, link |-> link, calls |-> calls, got |-> got,
          end_kind |-> x.kind, cand |-> x.cand, frame |-> x.frame]
    ELSE
      LET h == IF x.msg_id = MSG_ID_VELOCITY_CMD
               THEN handle_velocity_command(link, calls, x.payload, x.frame)
               ELSE IF x.msg_id = MSG_ID_CLEAR_ESTOP_CMD
               THEN handle_clear_estop(link, calls, x.payload)
               ELSE [link |-> link, calls |-> calls]
      IN  poll_loop(x.buf, h.link, h.calls,
                    Append(got, [msg_id |-> x.msg_id, payload |-> x.payload]))

\* poll_cmd(): _read_bytes() then the loop
poll_cmd(buf, uart, link, calls) == poll_loop(buf \o uart, link, calls, <<>>)

NoPoll == [op |-> "none", dispatched |-> 0, end_kind |-> "none", cand |-> <<>>,
           frame |-> <<>>, quiet |-> FALSE, before_link |-> NewLink, before_ncalls |-> 0]

NoScenario == [kind |-> "none", bytes |-> <<>>, must |-> <<>>]

LinkAtRest ==
    /\ scen = NoScenario
    /\ tape = <<>>
    /\ uart_rx = <<>>
    /\ rx_buf = <<>>
    /\ plink = NewLink
    /\ pcalls = <<>>
    /\ delivered = <<>>
    /\ plast = NoPoll
    /\ pseen = {}

\* proto.VelocityCommandPayload.to_bytes(): seq, stamp 0.0, cmd_type, v, omega,
\* max_linear_accel 0.6, max_angular_accel 2.0, command_id
velocity_payload(seq, cmd_type, v, omega) ==
    <<0, 0, 0, seq>> \o Zeros(8) \o <<cmd_type>> \o v \o omega
    \o <<63, 25, 153, 154>> \o <<64, 0, 0, 0>> \o <<0, 0, 0, seq>>

\* The frames sent to the motor-control unit: set velocity (0.2, 0.5), set
\* velocity (0.6, -2.0), stop, emergency stop, a velocity frame as the host
\* bridge builds it, and a frame with an id the link does not handle
FrameGo == pico_build_packet(MSG_ID_VELOCITY_CMD,
               velocity_payload(1, SET_VELOCITY, <<62, 76, 204, 205>>, <<63, 0, 0, 0>>))

FrameFast == pico_build_packet(MSG_ID_VELOCITY_CMD,
               velocity_payload(2, SET_VELOCITY, <<63, 25, 153, 154>>, <<192, 0, 0, 0>>))

FrameStop == pico_build_packet(MSG_ID_VELOCITY_CMD,
               velocity_payload(3, STOP, ZeroF32, ZeroF32))

FrameEstop == pico_build_packet(MSG_ID_VELOCITY_CMD,
               velocity_payload(4, EMERGENCY_STOP, ZeroF32, ZeroF32))

\* A ClearEstop request: header and request id
FrameClear == pico_build_packet(MSG_ID_CLEAR_ESTOP_CMD,
               <<0, 0, 0, 5>> \o Zeros(8) \o <<0, 0, 0, 1>>)

FrameHost == host_build_packet(MSG_ID_VELOCITY, pack_f32(2500) \o pack_f32(6250))

FrameOther == pico_build_packet(16, <<1, 2, 3>>)

\* Velocity frames whose payload is one byte shorter and one byte longer than
\* a velocity command
FrameShort == pico_build_packet(MSG_ID_VELOCITY_CMD,
                SubSeq(velocity_payload(5, SET_VELOCITY, <<62, 76, 204, 205>>, <<63, 0, 0, 0>>),
                       1, HEADER_SIZE + VELOCITY_BODY_SIZE - 1))

FrameLong == pico_build_packet(MSG_ID_VELOCITY_CMD,
                velocity_payload(6, SET_VELOCITY, <<62, 76, 204, 205>>, <<63, 0, 0, 0>>) \o <<0>>)

\* The (msg_id, payload) a frame carries
Carried(f) == [msg_id |-> f[3], payload |-> SubSeq(f, 6, Len(f) - 1)]

RECURSIVE Concat(_)
Concat(fs) == IF fs = <<>> THEN <<>> ELSE Head(fs) \o Concat(Tail(fs))

\* What reaches the UART: whole frames; or a frame with one byte altered, then
\* two whole frames; or a candidate with a wrong checksum whose payload is a
\* whole frame, then another whole frame
CleanScenarios ==
    {[kind |-> "clean", bytes |-> Concat(fs), must |-> [i \in 1..Len(fs) |-> Carried(fs[i])]] :
        fs \in {<<FrameGo, FrameFast>>, <<FrameHost, FrameStop>>, <<FrameOther, FrameEstop>>,
               <<FrameShort, FrameLong>>, <<FrameEstop, FrameGo>>,
               <<FrameEstop, FrameClear, FrameFast>>}}

AlterValues(old) == {(old + 1) % 256, START1} \ {old}

AlteredScenarios ==
    {[kind |-> "altered",
      bytes |-> [FrameGo EXCEPT ![pv[1]] = pv[2]] \o FrameFast \o FrameStop,
      must |-> <<Carried(FrameFast), Carried(FrameStop)>>] :
        pv \in {qv \in (1..Len(FrameGo)) \X (0..255) : qv[2] \in AlterValues(FrameGo[qv[1]])}}

NestedScenarios ==
    {[kind |-> "nested",
      bytes |-> [pico_build_packet(MSG_ID_VELOCITY_CMD, FrameFast)
                    EXCEPT ![Len(FrameFast) + 6] = (@ + 1) % 256] \o FrameStop,
      must |-> <<Carried(FrameFast), Carried(FrameStop)>>]}

Scenarios == CleanScenarios \cup AlteredScenarios \cup NestedScenarios

\* How many bytes reach the UART at a time: a few, or a frame's worth
SmallChunk == 8

ArriveSizes == {SmallChunk, Len(FrameGo)}

\* Bytes reach the UART's receive buffer
UartArrive(k) ==
    /\ tape # <<>>
    /\ LET n == Min(k, Len(tape))
       IN  /\ uart_rx' = uart_rx \o SubSeq(tape, 1, n)
           /\ tape' = SubSeq(tape, n + 1, Len(tape))
    /\ UNCHANGED <<scen, rx_buf, plink, pcalls, delivered, plast, pseen>>
    /\ UNCHANGED <<driveVars, arbVars, bridgeVars>>

\* The main loop calls poll_cmd()
LPoll ==
    /\ LET r == poll_cmd(rx_buf, uart_rx, plink, pcalls)
       IN  /\ rx_buf' = r.buf
           /\ uart_rx' = <<>>
           /\ plink' = r.link
           /\ pcalls' = r.calls
           /\ delivered' = delivered \o r.got
           /\ pseen' = pseen \cup {r.end_kind}
           /\ plast' = [op |-> "poll", dispatched |-> Len(r.got), end_kind |-> r.end_kind,
                        cand |-> r.cand, frame |-> r.frame,
                        quiet |-> uart_rx = <<>> /\ r.buf = rx_buf /\ r.got = <<>>,
                        before_link |-> plink, before_ncalls |-> Len(pcalls)]
    /\ UNCHANGED <<scen, tape>>
    /\ UNCHANGED <<driveVars, arbVars, bridgeVars>>

-----------------------------------------------------------------------------
(* The arbiter specification: the web server, the autonomy client and the    *)
(* control loop call CommandState from three threads while the clock runs;   *)
(* get_current_command() is called by the control loop and, for the          *)
(* /current_command endpoint, by the web server.                             *)

InitArbiter ==
    /\ ArbiterAtRest
    /\ DriveAtRest
    /\ BridgeAtRest
    /\ LinkAtRest

NextArbiter ==
    \/ HostTick
    \/ update_teleop("web")
    \/ get_status_snapshot("web")
    \/ update_auto("nav")
    \/ \E t \in Callers : get_current_command(t)

SpecArbiter == InitArbiter /\ [][NextArbiter]_vars

-----------------------------------------------------------------------------
(* The bridge specification: the control loop steps the bridge while the     *)
(* clock runs, one command arrives from another thread and the link comes    *)
(* and goes.                                                                 *)

\* What the serial input holds when the bridge starts: one telemetry frame
BridgeInputs == {host_build_packet(MSG_ID_TELEMETRY, p) : p \in TelemetryPayloads}

InitBridge ==
    /\ ArbiterAtRest
    /\ DriveAtRest
    /\ LinkAtRest
    /\ bridge = NewBridge
    /\ bhist = NewBridgeHist
    /\ hrx \in BridgeInputs
    /\ pline = <<>>
    /\ blast = NoBridgeOp
    /\ bops = 0

\* The command that arrives during a run of the bridge specification: (0.7,
\* -2.5) from the web server or (0.00008, 0.00008) from the autonomy client
BridgeCmds(s) == IF s = "teleop" THEN {<<8750, -31250>>} ELSE {<<1, 1>>}

\* What ser.in_waiting does on a port that has been closed
ClosedReads == {"serial_error", "other_error"}

Counted(A) == bops < MaxBridgeOps /\ A /\ bops' = bops + 1

\* The statements of a step() that has begun; Oks tells which outcomes the
\* serial calls on an open port can have
StepGoesOn(Oks) ==
    \/ BCommandCall
    \/ BCommand
    \/ \E write_ok \in Oks : BSend(write_ok)
    \/ \E read_ok \in Oks : \E closed_read \in ClosedReads : BInWaiting(read_ok, closed_read)
    \/ \E read_ok \in Oks : BReadHeader(read_ok)
    \/ \E read_ok \in Oks : BReadBody(read_ok)
    \/ BTelemetry

NextBridge ==
    \/ HostTick
    \/ \E s \in {"teleop", "auto"} : \E p \in BridgeCmds(s) : acalls = 0 /\ HCall(s, p)
    \/ \E s \in {"teleop", "auto"} : HUpdate(s)
    \/ \E open_ok \in BOOLEAN : Counted(BBegin(open_ok))
    \/ StepGoesOn(BOOLEAN) /\ UNCHANGED bops

SpecBridge == InitBridge /\ [][NextBridge]_vars

-----------------------------------------------------------------------------
(* The telemetry specification: with the serial port working, the control    *)
(* loop steps the bridge while the clock runs and the serial peer sends      *)
(* telemetry frames behind whatever bytes were left in the input.  The loop  *)
(* clock never stops; the claims say what else keeps happening.             *)

InitTelemetry ==
    /\ ArbiterAtRest
    /\ DriveAtRest
    /\ LinkAtRest
    /\ bridge = NewBridge
    /\ bhist = NewBridgeHist
    /\ hrx \in JunkSet
    /\ pline = <<>>
    /\ blast = NoBridgeOp
    /\ bops = 0

LoopStep ==
    /\ BBegin(TRUE) \/ StepGoesOn({TRUE})
    /\ UNCHANGED bops

PeerEmitAny == \E payload \in TelemetryPayloads : PeerEmit(payload)

PeerDeliverAny == \E k \in ChunkSizes : PeerDeliver(k)

NextTelemetry ==
    \/ HostTick
    \/ LoopStep
    \/ PeerEmitAny
    \/ PeerDeliverAny

SpecTelemetry ==
    /\ InitTelemetry
    /\ [][NextTelemetry]_vars
    /\ WF_vars(HostTick)

-----------------------------------------------------------------------------
(* The link specification: bytes reach the motor-control unit's UART in      *)
(* pieces while its main loop calls poll_cmd().                              *)

InitLink ==
    /\ ArbiterAtRest
    /\ DriveAtRest
    /\ BridgeAtRest
    /\ scen \in Scenarios
    /\ tape = scen.bytes
    /\ uart_rx = <<>>
    /\ rx_buf = <<>>
    /\ plink = NewLink
    /\ pcalls = <<>>
    /\ delivered = <<>>
    /\ plast = NoPoll
    /\ pseen = {}

NextLink ==
    \/ \E k \in ArriveSizes : UartArrive(k)
    \/ LPoll

SpecLink == InitLink /\ [][NextLink]_vars

-----------------------------------------------------------------------------
(* The drivetrain specification: one cooperative loop on the motor-control *)
(* unit calls update_cmd_vel and update_motors while the clock advances and  *)
(* the encoder interrupts fire.                                              *)

InitDrive ==
    /\ ArbiterAtRest
    /\ DriveAtRest
    /\ BridgeAtRest
    /\ LinkAtRest

\* The operations the main loop calls are called when no update_motors() is
\* in progress
DriveIdle == dops < MaxDriveOps /\ dhist.pc = "idle"

\* The clock advances by dt milliseconds, between two operations or inside an
\* update_motors() call
DTick(dt) ==
    /\ dops < MaxDriveOps
    /\ ticks' = ticks_add(ticks, dt)
    /\ dops' = dops + 1
    /\ dlast' = IF dhist.pc = "idle" THEN [NoDriveOp EXCEPT !.op = "tick"] ELSE dlast
    /\ dhist' = [dhist EXCEPT !.elapsed = Min(@ + dt, cmd_vel_timeout_ms + 1)]
    /\ UNCHANGED <<ctrl, motors>>
    /\ UNCHANGED <<driver, arbVars, bridgeVars, linkVars>>

DUpdateCmdVel(v, w) ==
    /\ DriveIdle
    /\ ctrl' = [ctrl EXCEPT !.linear = v, !.angular = w, !.last_cmd_time = ticks]
    /\ dops' = dops + 1
    /\ dlast' = [NoDriveOp EXCEPT !.op = "update_cmd_vel"]
    /\ dhist' = [NoDriveHist EXCEPT !.was_latched = dhist.latched]
    /\ UNCHANGED <<ticks, motors>>
    /\ UNCHANGED <<driver, arbVars, bridgeVars, linkVars>>

\* update_motors() up to its step() calls: it reads the clock; the timeout
\* ends the call
DUpdateMotors ==
    /\ DriveIdle
    /\ \E r \in update_motors_begin(ctrl, [s \in Sides |-> Fresh(motors[s])], ticks) :
           /\ ctrl' = r.c
           /\ motors' = r.ms
           /\ dlast' = [op |-> IF r.branch = "timeout" THEN "update_motors" ELSE "busy",
                        branch |-> r.branch,
                        diff |-> ticks_diff(ticks, ctrl.last_cmd_time),
                        kinematics |-> r.kinematics,
                        prev_duty |-> <<motors["L"].chan.duty, motors["R"].chan.duty>>,
                        prev_flag |-> ctrl.timeout_flag,
                        elapsed |-> dhist.elapsed]
           /\ dhist' = [dhist EXCEPT !.latched = @ \/ r.branch = "timeout",
                                     !.was_latched = dhist.latched,
                                     !.pc = IF r.branch = "timeout" THEN "idle" ELSE "step"]
    /\ dops' = dops + 1
    /\ UNCHANGED ticks
    /\ UNCHANGED <<driver, arbVars, bridgeVars, linkVars>>

\* A step of the update_motors() call in progress, inside the step() of the
\* motor on side dhist.side, which it leaves as m with the locals loc.  A
\* step() that ends (next = "done") is followed by the other motor's, and the
\* right motor's by the capture of the actuals, which ends the call.  It is
\* not counted as an operation of its own
DInside(pc, next, m, loc) ==
    /\ dhist.pc = pc
    /\ motors' = [motors EXCEPT ![dhist.side] = m]
    /\ IF next = "done" /\ dhist.side = "R"
       THEN /\ ctrl' = update_motors_capture(ctrl, [motors EXCEPT !["R"] = m])
            /\ dlast' = [dlast EXCEPT !.op = "update_motors"]
            /\ dhist' = [dhist EXCEPT !.pc = "idle", !.side = "L", !.loc = NoStepLocals]
       ELSE /\ dhist' = IF next = "done"
                        THEN [dhist EXCEPT !.pc = "step", !.side = "R",
                                           !.loc = NoStepLocals]
                        ELSE [dhist EXCEPT !.pc = next, !.loc = loc]
            /\ UNCHANGED <<ctrl, dlast>>
    /\ UNCHANGED <<ticks, dops>>
    /\ UNCHANGED <<driver, arbVars, bridgeVars, linkVars>>

\* update_motors(): step() of one motor reads the clock, and returns at once
\* when called too early or with a zero target
DStepBegin ==
    \E loc \in {Motor_step_begin(motors[dhist.side], ticks)} :
        DInside("step", IF loc.run THEN "update_rpm" ELSE "done",
                motors[dhist.side], loc)

\* update_motors(): encoder.update_rpm() reads the clock
DStepUpdateRpm ==
    \E loc \in {Motor_step_update_rpm(motors[dhist.side], dhist.loc, ticks)} :
        DInside("update_rpm", IF loc.enc.due THEN "count" ELSE "finish",
                motors[dhist.side], loc)

\* update_motors(): update_rpm() reads _count
DStepRead ==
    DInside("count", "finish", motors[dhist.side],
            Motor_step_read(motors[dhist.side], dhist.loc))

\* update_motors(): the rest of one motor's step()
DStepFinish ==
    \E m \in Motor_step_finish(motors[dhist.side], dhist.loc) :
        DInside("finish", "done", m, dhist.loc)

\* The outcome of a call that is not update_motors(): r holds the controller,
\* the motors and the driver as the call leaves them
DriveOp(name, r) ==
    /\ ctrl' = r.c
    /\ motors' = r.ms
    /\ driver' = r.d
    /\ dops' = dops + 1
    /\ dlast' = [NoDriveOp EXCEPT !.op = name]
    /\ UNCHANGED <<ticks, dhist>>
    /\ UNCHANGED <<arbVars, bridgeVars, linkVars>>

\* A call that does not touch the driver's standby line
KeepDriver(r) == [c |-> r.c, ms |-> r.ms, d |-> driver]

\* A call that does not touch the controller
KeepCtrl(r) == [c |-> ctrl, ms |-> r.ms, d |-> r.d]

\* DriveSystem.stop(brake)
DStop(brake) ==
    /\ DriveIdle
    /\ \E r \in stop_motors(ctrl, [s \in Sides |-> Fresh(motors[s])], brake, ticks) :
           DriveOp("stop", KeepDriver(r))

\* DriveSystem.emergency_stop(): the driver has emergency_stop
DEmergencyStop ==
    /\ DriveIdle
    /\ DriveOp("emergency_stop",
               KeepCtrl(driver_emergency_stop(driver, [s \in Sides |-> Fresh(motors[s])])))

\* drive.driver.enable()
DEnable ==
    /\ DriveIdle
    /\ DriveOp("enable", [c |-> ctrl, ms |-> [s \in Sides |-> Fresh(motors[s])],
                          d |-> driver_enable(driver)])

\* drive.driver.disable()
DDisable ==
    /\ DriveIdle
    /\ DriveOp("disable", KeepCtrl(driver_disable(driver, [s \in Sides |-> Fresh(motors[s])])))

\* An edge of channel A of one encoder, with the sampled levels of A and B,
\* between two operations or inside an update_motors() call
DOnEdge(s, a, b) ==
    /\ dops < MaxDriveOps
    /\ Abs(motors[s].encoder.count + (IF a = b THEN 1 ELSE -1)) <= MaxCount
    /\ motors' = [motors EXCEPT ![s].encoder = Encoder_on_edge(@, a, b, ticks)]
    /\ dops' = dops + 1
    /\ dlast' = IF dhist.pc = "idle" THEN [NoDriveOp EXCEPT !.op = "on_edge"] ELSE dlast
    /\ UNCHANGED <<ticks, ctrl, dhist>>
    /\ UNCHANGED <<driver, arbVars, bridgeVars, linkVars>>

NextDrive ==
    \/ \E dt \in TickSteps : DTick(dt)
    \/ \E c \in CmdSet : DUpdateCmdVel(c[1], c[2])
    \/ DUpdateMotors
    \/ DStepBegin
    \/ DStepUpdateRpm
    \/ DStepRead
    \/ DStepFinish
    \/ \E brake \in BOOLEAN : DStop(brake)
    \/ DEmergencyStop
    \/ DEnable
    \/ DDisable
    \/ \E s \in Sides, a \in {0, 1}, b \in {0, 1} : DOnEdge(s, a, b)

SpecDrive == InitDrive /\ [][NextDrive]_vars

-----------------------------------------------------------------------------
(* The controller specification: compute() and reset() are called on one   *)
(* PIDController (the left motor's) with any of a few targets, measurements  *)
(* and time steps, in any order.                                             *)

\* Longest run of controller calls explored
MaxPidOps == 4

\* Targets and measured speeds (RPM/100) and time steps (ms) given to
\* compute().  All but the measured speed 0.1 RPM are binary fractions in the
\* code's units, for which every float compute() forms is exact; a target of
\* 0.5 RPM measured as 0.1 RPM over 0.25 s gives a raw value of 5 formed by
\* inexact operations.
PidTargets == {0, 50, 300}

PidMeasured == {0, 10, 25, 300}

PidDts == {0, 125, 250}

\* No compute() has returned yet since the controller was built or reset
NoPidHist == [op |-> "none", out |-> 0, has_out |-> FALSE, prev_out |-> 0,
              paired |-> FALSE]

InitPid ==
    /\ ArbiterAtRest
    /\ BridgeAtRest
    /\ LinkAtRest
    /\ ticks = 0
    /\ ctrl = NewCtrl(0)
    /\ motors = [s \in Sides |-> NewMotor(0)]
    /\ dops = 0
    /\ dlast = NoDriveOp
    /\ driver = NewDriver
    /\ dhist = NoPidHist

\* controller.compute(target, current, dt): out is the value returned, prev_out
\* the value the previous compute() returned if none was reset away (paired)
PCompute(target, current, dt_ms) ==
    /\ dops < MaxPidOps
    /\ \E r \in PID_compute([motors["L"].controller EXCEPT !.computes = 0],
                              target, current, dt_ms) :
           /\ motors' = [motors EXCEPT !["L"].controller = r.pid]
           /\ dhist' = [op |-> "compute", out |-> r.out, has_out |-> TRUE,
                        prev_out |-> dhist.out, paired |-> dhist.has_out]
    /\ dops' = dops + 1
    /\ dlast' = [NoDriveOp EXCEPT !.op = "compute"]
    /\ UNCHANGED <<ticks, ctrl>>
    /\ UNCHANGED <<driver, arbVars, bridgeVars, linkVars>>

\* controller.reset()
PReset ==
    /\ dops < MaxPidOps
    /\ motors' = [motors EXCEPT !["L"].controller =
                      PID_reset([@ EXCEPT !.computes = 0])]
    /\ dhist' = [NoPidHist EXCEPT !.op = "reset"]
    /\ dops' = dops + 1
    /\ dlast' = [NoDriveOp EXCEPT !.op = "reset"]
    /\ UNCHANGED <<ticks, ctrl>>
    /\ UNCHANGED <<driver, arbVars, bridgeVars, linkVars>>

NextPid ==
    \/ \E t \in PidTargets, c \in PidMeasured, dt \in PidDts : PCompute(t, c, dt)
    \/ PReset

SpecPid == InitPid /\ [][NextPid]_vars

-----------------------------------------------------------------------------
(* The motor specification: the operations of one Motor (the left one) are  *)
(* called in any order while the clock advances and its encoder's interrupt  *)
(* fires, also between the steps of a step() call in progress.               *)

\* Longest run of motor operations explored
MaxMotorOps == 7

\* Signed targets (RPM/100) given to the target_rpm setter
MotorTargets == {0, 50, -300}

\* Amounts by which the clock advances between motor operations
MotorTicks == {min_loop_ms, MIN_UPDATE_MS}

\* pc is the position inside the step() call in progress and loc its locals.
\* The rest is observation: prev_target is the target in force before the
\* last operation; ran tells whether a nonzero duty has been written so far;
\* since_nonzero is the time since the target last left zero (-1 while it is
\* zero), fresh tells that compute() has not run since then, and was_fresh is
\* fresh as it was before the last operation
NoMotorHist == [pc |-> "idle", loc |-> NoStepLocals, prev_target |-> 0, ran |-> FALSE,
                since_nonzero |-> -1, fresh |-> FALSE, was_fresh |-> FALSE]

InitMotor ==
    /\ ArbiterAtRest
    /\ BridgeAtRest
    /\ LinkAtRest
    /\ ticks = 0
    /\ ctrl = NewCtrl(0)
    /\ motors = [s \in Sides |-> NewMotor(0)]
    /\ dops = 0
    /\ dlast = NoDriveOp
    /\ driver = NewDriver
    /\ dhist = NoMotorHist

\* The outcome of one operation or one step of step() on the left motor,
\* which leaves the motors as ms, the left one as m, the driver as d and the
\* step() call in progress, if any, at pc with the locals loc; diff is the
\* time since the motor's _last_time as the operation found it
MotorOpAt(name, ms, m, d, pc, loc, diff) ==
    /\ motors' = ms
    /\ driver' = d
    /\ dhist' = [pc |-> pc, loc |-> loc,
                 prev_target |-> motors["L"].target_rpm,
                 ran |-> dhist.ran \/ \E i \in 1..Len(m.chan.writes) :
                                         m.chan.writes[i] # 0,
                 since_nonzero |-> IF m.target_rpm = 0 THEN -1
                                   ELSE IF motors["L"].target_rpm = 0 THEN 0
                                   ELSE dhist.since_nonzero,
                 fresh |-> IF m.target_rpm = 0 THEN FALSE
                           ELSE IF motors["L"].target_rpm = 0 THEN TRUE
                           ELSE dhist.fresh /\ m.controller.computes = 0,
                 was_fresh |-> dhist.fresh]
    /\ dlast' = [NoDriveOp EXCEPT !.op = name, !.diff = diff]
    /\ UNCHANGED <<ticks, ctrl>>
    /\ UNCHANGED <<arbVars, bridgeVars, linkVars>>

\* An operation called by the main loop: it is called when no step() is in
\* progress
MotorOpAll(name, ms, m, d) ==
    /\ dops < MaxMotorOps
    /\ dhist.pc = "idle"
    /\ dops' = dops + 1
    /\ MotorOpAt(name, ms, m, d, "idle", NoStepLocals,
                 ticks_diff(ticks, motors["L"].last_time))

\* An operation that touches the left motor only
MotorOp(name, m) ==
    MotorOpAll(name, [[s \in Sides |-> Fresh(motors[s])] EXCEPT !["L"] = m], m, driver)

\* A step of the step() call in progress, which leaves the left motor as m;
\* it is taken when the call has reached it, and is not counted as an
\* operation of its own
MInside(pc, next, m, loc) ==
    /\ dhist.pc = pc
    /\ UNCHANGED dops
    /\ MotorOpAt(IF next = "idle" THEN "step" ELSE "step_" \o next,
                 [motors EXCEPT !["L"] = m], m, driver, next, loc, dhist.loc.dt_ms)

MTick(dt) ==
    /\ dops < MaxMotorOps
    /\ ticks' = ticks_add(ticks, dt)
    /\ dops' = dops + 1
    /\ dlast' = [NoDriveOp EXCEPT !.op = "tick"]
    /\ dhist' = [dhist EXCEPT !.since_nonzero = IF @ < 0 THEN @ ELSE @ + dt]
    /\ UNCHANGED <<ctrl, motors>>
    /\ UNCHANGED <<driver, arbVars, bridgeVars, linkVars>>

\* motor.target_rpm = rpm
MSetTarget(rpm) ==
    /\ dops < MaxMotorOps
    /\ MotorOp("set_target", Motor_set_target_rpm(Fresh(motors["L"]), rpm))

\* motor.step() up to its test: it reads the clock, and returns at once when
\* called too early or with a zero target
MStep ==
    \E loc \in {Motor_step_begin(motors["L"], ticks)} :
        IF loc.run
        THEN /\ dops < MaxMotorOps
             /\ dhist.pc = "idle"
             /\ dops' = dops + 1
             /\ MotorOpAt("step_begin",
                          [[s \in Sides |-> Fresh(motors[s])] EXCEPT
                               !["L"] = Fresh(motors["L"])],
                          Fresh(motors["L"]), driver, "update_rpm", loc, loc.dt_ms)
        ELSE MotorOp("step", Fresh(motors["L"]))

\* step(): encoder.update_rpm() reads the clock; when it is not due it
\* returns the cached RPM
MStepUpdateRpm ==
    \E loc \in {Motor_step_update_rpm(motors["L"], dhist.loc, ticks)} :
        MInside("update_rpm", IF loc.enc.due THEN "count" ELSE "finish",
                motors["L"], loc)

\* step(): update_rpm() reads _count
MStepRead ==
    MInside("count", "finish", motors["L"], Motor_step_read(motors["L"], dhist.loc))

\* The rest of step()
MStepFinish ==
    \E m \in Motor_step_finish(motors["L"], dhist.loc) :
        MInside("finish", "idle", m, dhist.loc)

\* motor.brake()
MBrake ==
    /\ dops < MaxMotorOps
    /\ MotorOp("brake", Motor_brake(Fresh(motors["L"])))

\* motor.emergency_stop()
MEmergencyStop ==
    /\ dops < MaxMotorOps
    /\ LET r == Motor_emergency_stop(driver, [s \in Sides |-> Fresh(motors[s])], "L")
       IN  MotorOpAll("emergency_stop", r.ms, r.ms["L"], r.d)

\* motor.get_diagnostics(): the encoder has the rpm property, so nothing is
\* updated
MDiagnostics ==
    /\ dops < MaxMotorOps
    /\ MotorOp("get_diagnostics", Fresh(motors["L"]))

\* An edge of channel A of the motor's encoder, between two operations or
\* inside a step() call
MOnEdge(a, b) ==
    /\ dops < MaxMotorOps
    /\ Abs(motors["L"].encoder.count + (IF a = b THEN 1 ELSE -1)) <= MaxCount
    /\ dops' = dops + 1
    /\ \E m \in {[motors["L"] EXCEPT !.encoder = Encoder_on_edge(@, a, b, ticks)]} :
           MotorOpAt("on_edge",
                     IF dhist.pc = "idle"
                     THEN [[s \in Sides |-> Fresh(motors[s])] EXCEPT !["L"] = Fresh(m)]
                     ELSE [motors EXCEPT !["L"] = m],
                     IF dhist.pc = "idle" THEN Fresh(m) ELSE m,
                     driver, dhist.pc, dhist.loc,
                     ticks_diff(ticks, motors["L"].last_time))

NextMotor ==
    \/ \E dt \in MotorTicks : MTick(dt)
    \/ \E rpm \in MotorTargets : MSetTarget(rpm)
    \/ MStep
    \/ MStepUpdateRpm
    \/ MStepRead
    \/ MStepFinish
    \/ MBrake
    \/ MEmergencyStop
    \/ MDiagnostics
    \/ \E a \in {0, 1}, b \in {0, 1} : MOnEdge(a, b)

SpecMotor == InitMotor /\ [][NextMotor]_vars

-----------------------------------------------------------------------------
(* The distance-move specification: drive_distance() is called once on the   *)
(* left motor with a timeout and runs its blocking loop while the clock      *)
(* advances and the encoder interrupt may or may not fire.                   *)

\* Encoder edges during one move
MaxDistEdges == 2

\* How many passes of its loop a call is followed for: enough for half the
\* period of the tick counter to elapse
MaxDistPasses == TicksHalf \div loop_sleep_ms + 2

\* How many times the clock advances by a millisecond between two statements
\* of one call, besides its sleeps
MaxDistLate == 1

\* Edges and advances of the clock are followed up to this pass of the loop
MaxBusyPasses == 1

\* encoder.distance_per_pulse, micrometres: WHEEL_CIRCUMFERENCE / TICKS_PER_REV
\* is 285; 0 is rejected
DistPerPulse == {0, 285}

\* distance_m, micrometres: no pulse, a little more than the distance of one
\* pulse, and the distance of two pulses exactly
Distances == {0, 300, -570}

\* rpm, RPM/100
DistTargets == {50, -300}

\* int(timeout_s * 1000): no time at all and two and a bit passes of the loop
DistTimeouts == {0, 10, 12}

\* The calls made, each <<distance_per_pulse, distance_m, rpm, timeout>>:
\* every combination of the values above, and a move of one pulse with a
\* timeout of half the period of the tick counter
DistCalls ==
    (DistPerPulse \X Distances \X DistTargets \X DistTimeouts)
        \cup {<<285, 300, 50, TicksHalf>>}

\* pc is the position inside drive_distance(), loc the locals of the step()
\* call in progress and passes the number of passes of the loop begun.  The
\* rest is observation: elapsed is the time since start_ms was taken and seen
\* what it was when the timeout was last tested; slept is the number of
\* milliseconds of the sleep_ms() in progress that have passed (part of the
\* position); net is the number of edges
\* counted up less those counted down since reset() zeroed the count, and
\* net_at_test what it was when the loop condition was last tested; edges and
\* late count the edges and the advances of the clock; why tells which test
\* ended the loop
NoDistHist == [pc |-> "idle", loc |-> NoStepLocals, passes |-> 0, pulses |-> 0,
               rpm |-> 0, start_ms |-> 0, timeout_ms |-> 0, elapsed |-> 0,
               seen |-> 0, slept |-> 0, net |-> 0, net_at_test |-> 0, edges |-> 0,
               late |-> 0, why |-> "none", raised |-> "none"]

InitDistance ==
    /\ ArbiterAtRest
    /\ BridgeAtRest
    /\ LinkAtRest
    /\ ticks \in {0, TICKS_PERIOD - 3}
    /\ ctrl = NewCtrl(0)
    /\ motors = [s \in Sides |-> NewMotor(ticks)]
    /\ dops = 0
    /\ dlast = NoDriveOp
    /\ driver = NewDriver
    /\ dhist = NoDistHist

\* One statement of drive_distance(), taken at pc, which leaves the motor as
\* m and the call as h
XStmt(pc, name, m, h) ==
    /\ dhist.pc = pc
    /\ motors' = [motors EXCEPT !["L"] = m]
    /\ dhist' = h
    /\ dlast' = [NoDriveOp EXCEPT !.op = name]
    /\ UNCHANGED <<ticks, ctrl, dops>>
    /\ UNCHANGED <<driver, arbVars, bridgeVars, linkVars>>

\* drive_distance(distance, rpm, timeout_s) up to the first part of
\* encoder.reset(), which zeroes _count; has_dpp tells whether the encoder
\* object defines distance_per_pulse (the Encoder of encoder.py does not)
XCall(has_dpp, dpp, distance, rpm, timeout_ms) ==
    IF ~has_dpp \/ dpp <= 0
    THEN XStmt("idle", "drive_distance", motors["L"],
               [dhist EXCEPT !.pc = "raised",
                    !.raised = IF has_dpp THEN "ValueError" ELSE "AttributeError"])
    ELSE \E pulses \in drive_pulses(distance, dpp) :
             XStmt("idle", "drive_distance",
                   [Fresh(motors["L"]) EXCEPT !.encoder = Encoder_reset_count(@)],
                   [dhist EXCEPT !.pc = "reset_now", !.pulses = pulses, !.rpm = rpm,
                                 !.timeout_ms = timeout_ms, !.net = 0])

\* encoder.reset() reads the clock
XResetBegin ==
    XStmt("reset_now", "reset_begin",
          [motors["L"] EXCEPT !.encoder = Encoder_reset_begin(@, ticks)],
          [dhist EXCEPT !.pc = "reset"])

\* The rest of encoder.reset(), controller.reset() and the target_rpm setter
XBegin ==
    XStmt("reset", "begin", drive_distance_begin(Fresh(motors["L"]), dhist.rpm),
          [dhist EXCEPT !.pc = "start"])

\* start_ms = time.ticks_ms()
XStart ==
    XStmt("start", "start", motors["L"],
          [dhist EXCEPT !.pc = "test", !.start_ms = ticks, !.elapsed = 0])

\* while abs(self.encoder.ticks) < pulses.  A call is followed for
\* MaxDistPasses passes of its loop.
XTest ==
    XStmt("test", "test", motors["L"],
          IF Abs(Encoder_ticks(motors["L"].encoder)) >= dhist.pulses
          THEN [dhist EXCEPT !.pc = "stop", !.why = "distance",
                             !.net_at_test = dhist.net]
          ELSE [dhist EXCEPT !.pc = IF dhist.passes < MaxDistPasses THEN "step"
                                    ELSE "cut",
                             !.passes = Min(@ + 1, MaxDistPasses),
                             !.net_at_test = dhist.net])

\* self.step() reads the clock, and returns at once when called too early
XStep ==
    \E loc \in {Motor_step_begin(motors["L"], ticks)} :
        XStmt("step", "step_begin", Fresh(motors["L"]),
              [dhist EXCEPT !.pc = IF loc.run THEN "update_rpm" ELSE "timeout",
                            !.loc = IF loc.run THEN loc ELSE NoStepLocals])

\* step(): encoder.update_rpm() reads the clock
XStepUpdateRpm ==
    \E loc \in {Motor_step_update_rpm(motors["L"], dhist.loc, ticks)} :
        XStmt("update_rpm", "step_update_rpm", motors["L"],
              [dhist EXCEPT !.pc = IF loc.enc.due THEN "count" ELSE "finish",
                            !.loc = loc])

\* step(): update_rpm() reads _count
XStepRead ==
    XStmt("count", "step_read", motors["L"],
          [dhist EXCEPT !.pc = "finish",
                        !.loc = Motor_step_read(motors["L"], dhist.loc)])

\* The rest of step()
XStepFinish ==
    \E m \in Motor_step_finish(motors["L"], dhist.loc) :
        XStmt("finish", "step", m, [dhist EXCEPT !.pc = "timeout", !.loc = NoStepLocals])

\* The timeout test: it reads the clock
XTimeout ==
    XStmt("timeout", "timeout_test", motors["L"],
          IF drive_distance_timed_out(dhist.start_ms, dhist.timeout_ms, ticks)
          THEN [dhist EXCEPT !.pc = "stop", !.why = "timeout", !.seen = dhist.elapsed]
          ELSE [dhist EXCEPT !.pc = "sleep", !.seen = dhist.elapsed])

\* time.sleep_ms(5): one millisecond of the wait passes.  The edge interrupt
\* can fire at each clock value the wait goes through; after loop_sleep_ms
\* milliseconds the wait is over and the loop condition is tested.  What
\* longer the wait takes is an advance of the clock after it
XSleep ==
    /\ dhist.pc = "sleep"
    /\ ticks' = ticks_add(ticks, 1)
    /\ dhist' = [dhist EXCEPT !.pc = IF dhist.slept + 1 = loop_sleep_ms
                                    THEN "test" ELSE "sleep",
                              !.slept = IF @ + 1 = loop_sleep_ms THEN 0 ELSE @ + 1,
                              !.elapsed = @ + 1]
    /\ dlast' = [NoDriveOp EXCEPT !.op = "sleep"]
    /\ UNCHANGED <<ctrl, motors, dops>>
    /\ UNCHANGED <<driver, arbVars, bridgeVars, linkVars>>

\* self.target_rpm = 0.0; self.driver.brake(self.channel); return
XStop ==
    XStmt("stop", "return", Motor_brake(Fresh(motors["L"])),
          [dhist EXCEPT !.pc = "returned"])

\* The clock advances by a millisecond between two statements of the call
\* (inside sleep_ms() it advances with the wait)
XClock ==
    /\ dhist.pc \notin {"idle", "raised", "returned", "cut", "sleep"}
    /\ dhist.passes <= MaxBusyPasses
    /\ dhist.late < MaxDistLate
    /\ ticks' = ticks_add(ticks, 1)
    /\ dhist' = [dhist EXCEPT !.late = @ + 1,
                              !.elapsed = IF dhist.pc \in {"reset_now", "reset", "start"}
                                          THEN @ ELSE @ + 1]
    /\ UNCHANGED <<ctrl, motors, dops, dlast>>
    /\ UNCHANGED <<driver, arbVars, bridgeVars, linkVars>>

\* An edge of channel A of the encoder, before the call, between any two of
\* its statements or after it
XOnEdge(a, b) ==
    /\ dhist.pc # "cut"
    /\ dhist.passes <= MaxBusyPasses
    /\ dhist.edges < MaxDistEdges
    /\ motors' = [motors EXCEPT !["L"].encoder = Encoder_on_edge(@, a, b, ticks)]
    /\ dhist' = [dhist EXCEPT !.edges = @ + 1,
                              !.net = @ + (IF a = b THEN 1 ELSE -1)]
    /\ UNCHANGED <<ticks, ctrl, dops, dlast>>
    /\ UNCHANGED <<driver, arbVars, bridgeVars, linkVars>>

\* The statements of the call once it has passed its argument checks
LoopStatements ==
    \/ XResetBegin
    \/ XBegin
    \/ XStart
    \/ XTest
    \/ XStep
    \/ XStepUpdateRpm
    \/ XStepRead
    \/ XStepFinish
    \/ XTimeout
    \/ XSleep
    \/ XStop

NextDistance ==
    \/ \E has_dpp \in BOOLEAN, c \in DistCalls : XCall(has_dpp, c[1], c[2], c[3], c[4])
    \/ LoopStatements
    \/ XClock
    \/ \E a \in {0, 1}, b \in {0, 1} : XOnEdge(a, b)

\* The call is the only thing the calling thread does, so each of its
\* statements is executed when it is reached
SpecDistance == InitDistance /\ [][NextDistance]_vars /\ WF_vars(LoopStatements)

-----------------------------------------------------------------------------
(* The encoder specification: the main loop calls update_rpm(), reset() and *)
(* get_diagnostics() on one Encoder (the left motor's) while the clock       *)
(* advances and the edge interrupt fires.  A call is one step for each read  *)
(* of the clock and for each access to what the handler writes (_count and   *)
(* _last_edge_ms): update_rpm() reads the clock, reads _count and does the   *)
(* rest; get_diagnostics() reads the clock, tests _last_edge_ms, reads it,   *)
(* and reads _count; reset() writes _count, reads the clock and writes       *)
(* _last_edge_ms.  The clock advances and the handler runs between any two   *)
(* of these steps.                                                           *)

\* Longest run of encoder operations explored
MaxEncOps == 5

\* Largest number of edges between two resets
MaxEdges == 4

\* Amounts by which the clock advances between encoder operations; one tick
\* in 16 ms gives 0.625 RPM, halfway between two hundredths
EncTicks == {1, MIN_UPDATE_MS, window_ms + 1, 16}

\* The locals of get_diagnostics() when no call is in progress
NoDiagLocals == [now_ms |-> 0, last_update_age_ms |-> 0, edge_seen |-> FALSE,
                 last_edge_age_ms |-> <<>>]

\* pc is the position inside the update_rpm(), reset() or get_diagnostics()
\* call in progress, loc the locals of update_rpm() and dloc those of
\* get_diagnostics().  The rest is observation: the edges since the last reset() with A = B (up) and with
\* A # B (down), the count before the last edge and its levels, the sum of the
\* deltas update_rpm() appended since the last reset() (recorded), the edges
\* counted since the last read of _count by update_rpm() (after_read), the
\* time of the last edge, and whether reset() has been called.
NoEncHist == [pc |-> "idle", loc |-> NoLocals, dloc |-> NoDiagLocals, up |-> 0, down |-> 0,
              prev_count |-> 0, edge |-> <<0, 0>>, recorded |-> 0,
              after_read |-> 0, last_tick_at |-> -1, was_reset |-> FALSE]

InitEncoder ==
    /\ ArbiterAtRest
    /\ BridgeAtRest
    /\ LinkAtRest
    /\ ticks = 0
    /\ ctrl = NewCtrl(0)
    /\ motors = [s \in Sides |-> NewMotor(0)]
    /\ dops = 0
    /\ dlast = NoDriveOp
    /\ driver = NewDriver
    /\ dhist = NoEncHist

ETick(dt) ==
    /\ dops < MaxEncOps
    /\ ticks' = ticks_add(ticks, dt)
    /\ dops' = dops + 1
    /\ dlast' = [NoDriveOp EXCEPT !.op = "tick"]
    /\ UNCHANGED <<ctrl, motors, dhist>>
    /\ UNCHANGED <<driver, arbVars, bridgeVars, linkVars>>

\* The edge interrupt, with the sampled levels of A and B
EOnEdge(a, b) ==
    /\ dops < MaxEncOps
    /\ dhist.up + dhist.down < MaxEdges
    /\ motors' = [motors EXCEPT !["L"].encoder = Encoder_on_edge(@, a, b, ticks)]
    /\ dhist' = [dhist EXCEPT !.up = IF a = b THEN @ + 1 ELSE @,
                              !.down = IF a = b THEN @ ELSE @ + 1,
                              !.prev_count = motors["L"].encoder.count,
                              !.edge = <<a, b>>,
                              !.after_read = IF a = b THEN @ + 1 ELSE @ - 1,
                              !.last_tick_at = ticks]
    /\ dops' = dops + 1
    /\ dlast' = [NoDriveOp EXCEPT !.op = "on_edge"]
    /\ UNCHANGED <<ticks, ctrl>>
    /\ UNCHANGED <<driver, arbVars, bridgeVars, linkVars>>

\* A step inside a call in progress: it is taken when the call has reached
\* it, and is not counted as an operation of its own
EInside(pc, op, branch) ==
    /\ dhist.pc = pc
    /\ dlast' = [NoDriveOp EXCEPT !.op = op, !.branch = branch]
    /\ UNCHANGED <<ticks, ctrl, dops>>
    /\ UNCHANGED <<driver, arbVars, bridgeVars, linkVars>>

\* update_rpm() from its start to the test of dt_ms: it reads the clock and
\* returns at once with the cached value when less than MIN_UPDATE_MS has
\* passed
EUpdateBegin ==
    /\ dops < MaxEncOps
    /\ dhist.pc = "idle"
    /\ \E loc \in {Encoder_update_begin(motors["L"].encoder, ticks)} :
           IF loc.due
           THEN /\ dhist' = [dhist EXCEPT !.pc = "count", !.loc = loc]
                /\ dlast' = [NoDriveOp EXCEPT !.op = "update_rpm", !.branch = "begin"]
           ELSE /\ dhist' = dhist
                /\ dlast' = [NoDriveOp EXCEPT !.op = "update_rpm", !.branch = "early"]
    /\ dops' = dops + 1
    /\ UNCHANGED <<ticks, ctrl, motors>>
    /\ UNCHANGED <<driver, arbVars, bridgeVars, linkVars>>

\* update_rpm(): the read of _count
EUpdateRead ==
    /\ EInside("count", "update_rpm", "read")
    /\ dhist' = [dhist EXCEPT !.pc = "read",
                              !.loc = Encoder_update_read(motors["L"].encoder, @),
                              !.after_read = 0]
    /\ UNCHANGED motors

\* The rest of update_rpm(): the sample is appended, the window pruned, the
\* RPM recomputed
EUpdateCommit ==
    /\ EInside("read", "update_rpm", "commit")
    /\ \E e1 \in Encoder_update_commit(motors["L"].encoder, dhist.loc) :
           /\ motors' = [motors EXCEPT !["L"].encoder = e1]
           /\ dhist' = [dhist EXCEPT !.pc = "idle",
                                     !.recorded = @ + e1.samples[Len(e1.samples)][2]]

\* The control loop reads encoder.ticks; dlast.diff is the value it got
EReadTicks ==
    /\ dops < MaxEncOps
    /\ dhist.pc = "idle"
    /\ dlast' = [NoDriveOp EXCEPT !.op = "ticks",
                                  !.diff = Encoder_ticks(motors["L"].encoder)]
    /\ dops' = dops + 1
    /\ UNCHANGED <<ticks, ctrl, motors, dhist>>
    /\ UNCHANGED <<driver, arbVars, bridgeVars, linkVars>>

\* The control loop calls encoder.get_diagnostics(): the call up to
\* last_update_age_ms, with its read of the clock
EDiagBegin ==
    /\ dops < MaxEncOps
    /\ dhist.pc = "idle"
    /\ dhist' = [dhist EXCEPT !.pc = "diag_now",
                              !.dloc = Encoder_diag_begin(motors["L"].encoder, ticks)]
    /\ dlast' = [NoDriveOp EXCEPT !.op = "diag", !.branch = "begin"]
    /\ dops' = dops + 1
    /\ UNCHANGED <<ticks, ctrl, motors>>
    /\ UNCHANGED <<driver, arbVars, bridgeVars, linkVars>>

\* get_diagnostics(): the test of _last_edge_ms
EDiagTest ==
    /\ EInside("diag_now", "diag", "test")
    /\ dhist' = [dhist EXCEPT !.pc = "diag_test",
                              !.dloc = Encoder_diag_test(motors["L"].encoder, @)]
    /\ UNCHANGED motors

\* get_diagnostics(): the branch taken on the test, with its read of
\* _last_edge_ms
EDiagEdgeAge ==
    /\ EInside("diag_test", "diag", "age")
    /\ dhist' = [dhist EXCEPT !.pc = "diag_age",
                              !.dloc = Encoder_diag_edge_age(motors["L"].encoder, @)]
    /\ UNCHANGED motors

\* The rest of get_diagnostics(), with its read of _count; dlast.diag is what
\* the call returned
EDiagnostics ==
    /\ dhist.pc = "diag_age"
    /\ dhist' = [dhist EXCEPT !.pc = "idle"]
    /\ dlast' = [op |-> "get_diagnostics", branch |-> "none", diff |-> 0,
                 kinematics |-> FALSE, prev_duty |-> <<0, 0>>, prev_flag |-> FALSE,
                 diag |-> Encoder_get_diagnostics(motors["L"].encoder, dhist.dloc)]
    /\ UNCHANGED <<ticks, ctrl, motors, dops>>
    /\ UNCHANGED <<driver, arbVars, bridgeVars, linkVars>>

\* encoder.reset(), called by the main loop between update_rpm() calls:
\* `_count = 0` and `_samples.clear()`; the observation starts anew
EResetCount ==
    /\ dops < MaxEncOps
    /\ dhist.pc = "idle"
    /\ motors' = [motors EXCEPT !["L"].encoder = Encoder_reset_count(@)]
    /\ dhist' = [NoEncHist EXCEPT !.was_reset = TRUE, !.pc = "reset_now"]
    /\ dlast' = [NoDriveOp EXCEPT !.op = "reset", !.branch = "count"]
    /\ dops' = dops + 1
    /\ UNCHANGED <<ticks, ctrl>>
    /\ UNCHANGED <<driver, arbVars, bridgeVars, linkVars>>

\* reset() from its read of the clock up to `_last_update_ms = now`
EResetBegin ==
    /\ EInside("reset_now", "reset", "begin")
    /\ motors' = [motors EXCEPT !["L"].encoder = Encoder_reset_begin(@, ticks)]
    /\ dhist' = [dhist EXCEPT !.pc = "reset"]

\* The rest of reset()
EResetFinish ==
    /\ EInside("reset", "reset", "finish")
    /\ motors' = [motors EXCEPT !["L"].encoder = Encoder_reset_finish(@)]
    /\ dhist' = [dhist EXCEPT !.pc = "idle"]

NextEncoder ==
    \/ \E dt \in EncTicks : ETick(dt)
    \/ \E a \in {0, 1}, b \in {0, 1} : EOnEdge(a, b)
    \/ EUpdateBegin
    \/ EUpdateRead
    \/ EUpdateCommit
    \/ EReadTicks
    \/ EDiagBegin
    \/ EDiagTest
    \/ EDiagEdgeAge
    \/ EDiagnostics
    \/ EResetCount
    \/ EResetBegin
    \/ EResetFinish

SpecEncoder == InitEncoder /\ [][NextEncoder]_vars

-----------------------------------------------------------------------------
(* The kinematics specification: a DiffDriveController is constructed with  *)
(* some wheel circumference, given a command, and its forward and inverse    *)
(* transforms are applied.                                                   *)

\* Longest run of operations explored
MaxKinOps == 4

\* Circumferences (mm) offered to the constructor; with 96 mm a command of
\* 1 mm/s gives a wheel speed of 0.625 RPM, halfway between two hundredths
Circumferences == {wheel_circumference, 0, -wheel_circumference, 96}

\* Commanded linear (mm/s) and angular (rad/s) velocities of the operating
\* range, which the host limits to 0.6 m/s and 2 rad/s
KinLinear == {-600, -333, -10, -1, 0, 1, 7, 10, 200, 333, 600}

KinAngular == {-2, -1, 0, 1, 2}

\* stage: how far the run has come; C: the circumference the controller was
\* built with; rpm: what compute_wheel_rpms() returned; body: what
\* _compute_body_velocities() returned for that pair
NoKinHist == [stage |-> "none", C |-> wheel_circumference, raised |-> "none",
              rpm |-> <<0, 0>>, body |-> <<0, 0>>]

InitKinematics ==
    /\ ArbiterAtRest
    /\ BridgeAtRest
    /\ LinkAtRest
    /\ ticks = 0
    /\ ctrl = NewCtrl(0)
    /\ motors = [s \in Sides |-> NewMotor(0)]
    /\ dops = 0
    /\ dlast = NoDriveOp
    /\ driver = NewDriver
    /\ dhist = NoKinHist

\* DiffDriveController(left, right, wheel_circumference=C)
KConstruct(C) ==
    /\ dops < MaxKinOps
    /\ dhist.stage = "none"
    /\ LET r == construct_controller(C, ticks)
       IN  /\ ctrl' = r.c
           /\ dhist' = [dhist EXCEPT !.stage = IF r.constructed THEN "constructed"
                                               ELSE "rejected",
                                     !.C = r.C]
    /\ dops' = dops + 1
    /\ dlast' = [NoDriveOp EXCEPT !.op = "construct"]
    /\ UNCHANGED <<ticks, motors>>
    /\ UNCHANGED <<driver, arbVars, bridgeVars, linkVars>>

KUpdateCmdVel(v, w) ==
    /\ dops < MaxKinOps
    /\ dhist.stage = "constructed"
    /\ ctrl' = [ctrl EXCEPT !.linear = v, !.angular = w, !.last_cmd_time = ticks]
    /\ dhist' = [dhist EXCEPT !.stage = "commanded"]
    /\ dops' = dops + 1
    /\ dlast' = [NoDriveOp EXCEPT !.op = "update_cmd_vel"]
    /\ UNCHANGED <<ticks, motors>>
    /\ UNCHANGED <<driver, arbVars, bridgeVars, linkVars>>

\* compute_wheel_rpms()
KForward ==
    /\ dops < MaxKinOps
    /\ dhist.stage = "commanded"
    /\ \E r \in compute_wheel_rpms_with(ctrl, dhist.C) :
           /\ dhist' = [dhist EXCEPT !.stage = "forward", !.raised = r.raised,
                                     !.rpm = r.rpm]
           /\ ctrl' = IF r.raised = "none"
                      THEN [ctrl EXCEPT !.last_target_rpm = wheel_rpm_num(ctrl)]
                      ELSE ctrl
    /\ dops' = dops + 1
    /\ dlast' = [NoDriveOp EXCEPT !.op = "compute_wheel_rpms", !.kinematics = TRUE]
    /\ UNCHANGED <<ticks, motors>>
    /\ UNCHANGED <<driver, arbVars, bridgeVars, linkVars>>

\* _compute_body_velocities() applied to the pair compute_wheel_rpms() returned
KInverse ==
    /\ dops < MaxKinOps
    /\ dhist.stage = "forward"
    /\ dhist.raised = "none"
    /\ dhist' = [dhist EXCEPT !.stage = "inverse",
                              !.body = compute_body_velocities_with(
                                           dhist.rpm[1], dhist.rpm[2], dhist.C)]
    /\ dops' = dops + 1
    /\ dlast' = [NoDriveOp EXCEPT !.op = "compute_body_velocities"]
    /\ UNCHANGED <<ticks, ctrl, motors>>
    /\ UNCHANGED <<driver, arbVars, bridgeVars, linkVars>>

NextKinematics ==
    \/ \E C \in Circumferences : KConstruct(C)
    \/ \E v \in KinLinear, w \in KinAngular : KUpdateCmdVel(v, w)
    \/ KForward
    \/ KInverse

SpecKinematics == InitKinematics /\ [][NextKinematics]_vars

-----------------------------------------------------------------------------
(* Claims about the command arbiter, checked under SpecArbiter *)

\* The call of the given name has computed its return value and is about to
\* leave the lock and return it
Returning(t, call) == thr[t].call = call /\ thr[t].pc = "release"

RealUpdates(s) == hist[s] \ {<<0, 0>>}

\* What the arbiter has to answer at time now, from the sources' stored
\* values and update times alone
ArbiterAnswer(now) ==
    IF now - cs.teleop.last_update_ts < teleop_timeout
    THEN <<cs.teleop.v_cmd, cs.teleop.w_cmd, "teleop">>
    ELSE IF now - cs.auto.last_update_ts < auto_timeout
         THEN <<cs.auto.v_cmd, cs.auto.w_cmd, "auto">>
         ELSE <<0, 0, "idle">>

\* C2: get_current_command, reading the clock as now, returns teleop's stored
\* (v, w) with mode teleop when teleop's age is strictly below teleop_timeout,
\* else auto's stored (v, w) with mode auto when auto's age is strictly below
\* auto_timeout, else (0, 0) with mode idle; an age equal to the timeout is
\* expired, and the mode left by an earlier call plays no part.
C2_ArbiterResult ==
    \A t \in Callers :
        Returning(t, "get_current_command") => thr[t].ret = ArbiterAnswer(thr[t].now)

C2_Witness ==
    /\ Returning("loop", "get_current_command")
    /\ <<8750, -31250>> \in hist["teleop"]
    /\ thr["loop"].now - cs.teleop.last_update_ts = teleop_timeout
    /\ cs.teleop.v_cmd = 8750
    /\ thr["loop"].ret = <<2500, 6250, "auto">>

\* C3: once teleop and auto have both been updated, the get_current_command()
\* calls, taken in the order in which they return and whichever thread makes
\* them, each return what the arbiter has to answer at some clock value
\* between the call's start and its return (teleop's values while teleop's
\* age is below its timeout, else auto's values while auto's age is below its
\* timeout, else (0, 0, idle)), and no call returns a source after a call has
\* returned a mode of lower priority, unless an update of that source has
\* come into effect in between: the modes returned only fall back, teleop to
\* auto to idle.
C3_FallbackOnly ==
    (chain.updated["teleop"] /\ chain.updated["auto"]) =>
        \A t \in Callers :
            Returning(t, "get_current_command") =>
                /\ \E now \in thr[t].now..mono : thr[t].ret = ArbiterAnswer(now)
                /\ thr[t].ret[3] \in {"teleop", "auto"} =>
                       chain.floor[thr[t].ret[3]] >= RankOf(thr[t].ret[3])

\* C4: with updates and reads interleaved in any order, a (v, w) pair returned
\* by get_current_command or reported by get_status_snapshot for a source was
\* passed together to one update call of that source (or is the constructed
\* (0, 0)), idle is returned with (0, 0), and the mode of a status snapshot
\* agrees with the active flags of the same snapshot.
C4_SnapshotConsistent ==
    /\ \A t \in Callers :
          Returning(t, "get_current_command") =>
              /\ thr[t].ret[3] = "teleop" => <<thr[t].ret[1], thr[t].ret[2]>> \in hist["teleop"]
              /\ thr[t].ret[3] = "auto" => <<thr[t].ret[1], thr[t].ret[2]>> \in hist["auto"]
              /\ thr[t].ret[3] = "idle" => <<thr[t].ret[1], thr[t].ret[2]>> = <<0, 0>>
              /\ thr[t].ret[3] \in {"teleop", "auto", "idle"}
    /\ Returning("web", "get_status_snapshot") =>
          LET r == thr["web"].ret IN
          /\ <<r[2], r[3]>> \in hist["teleop"]
          /\ <<r[5], r[6]>> \in hist["auto"]
          /\ r[1] = (IF r[4] THEN "teleop" ELSE IF r[7] THEN "auto" ELSE "idle")

C4_Witness ==
    /\ Returning("loop", "get_current_command")
    /\ thr["loop"].ret = <<8750, -31250, "teleop">>
    /\ cs.teleop.last_update_ts > 0
    /\ thr["web"].call = "update_teleop"
    /\ thr["web"].pc = "acquire"
    /\ thr["web"].now > cs.teleop.last_update_ts

-----------------------------------------------------------------------------
(* Claims about the host's serial bridge *)

\* The step just made found the link up and the arbiter idle
IdleStep == blast.op = "step" /\ blast.link_up /\ blast.mode = "idle"

\* AA 55 01 00 08, eight zero bytes (0.0, 0.0), checksum 09
ZeroVelocityFrame == <<170, 85, 1, 0, 8, 0, 0, 0, 0, 0, 0, 0, 0, 9>>

\* C5: while the link is up and the arbiter is idle, every frame step()
\* writes carries (0.0, 0.0), and a step made when heartbeat_s or more has
\* passed since the last successful send (or when nothing was sent yet)
\* writes one.
C5_IdleSendsZero ==
    IdleStep =>
        /\ blast.frame # <<>> => blast.frame = ZeroVelocityFrame
        /\ blast.frame = <<>> =>
              /\ blast.prev_sent # <<>>
              /\ blast.now - blast.prev_send_ts < heartbeat_s

C5_Witness ==
    /\ IdleStep
    /\ blast.why = "heartbeat"
    /\ blast.frame = ZeroVelocityFrame
    /\ blast.written
    /\ blast.now - blast.prev_send_ts >= heartbeat_s
    /\ cs.teleop.v_cmd = 8750

\* The step just made found the link up (or brought it up)
LinkUpStep == blast.op = "step" /\ blast.link_up

\* C15: in a step() that finds the link up a velocity frame is written if and
\* only if nothing was sent successfully before, or the linear or the angular
\* value differs from the last one sent by more than the epsilon, or
\* heartbeat_s or more has passed since the last successful send when the step
\* reads the clock; and in every such step the telemetry read is attempted,
\* frame or no frame.  last_sent and the send time are those the step found.
C15_SendRule ==
    LinkUpStep =>
        LET v == blast.cmd[1]
            w == blast.cmd[2]
            due == \/ blast.prev_sent = <<>>
                   \/ (blast.prev_sent # <<>> /\ differs(v, blast.prev_sent[1]))
                   \/ (blast.prev_sent # <<>> /\ differs(w, blast.prev_sent[2]))
                   \/ blast.now - blast.prev_send_ts >= heartbeat_s
        IN  /\ (blast.frame # <<>>) <=> due
            /\ blast.read # "none"

C15_Witness ==
    /\ LinkUpStep
    /\ blast.frame = <<>>
    /\ blast.read = "short"
    /\ blast.prev_sent = blast.cmd
    /\ blast.cmd = <<7500, -25000>>
    /\ blast.now > blast.prev_send_ts

\* The values a float32 field of the model can carry
F32Values == {0, 1, 2500, 6250, 7500, 8750, -25000, -31250}

\* C16: every velocity frame step() writes carries a linear value within
\* +-max_linear_mps and an angular value within +-max_angular_rps, whatever
\* the command sources gave the arbiter.
C16_FramesWithinLimits ==
    (blast.op = "step" /\ blast.frame # <<>>) =>
        \E v, w \in F32Values :
            /\ -max_linear_mps <= v /\ v <= max_linear_mps
            /\ -max_angular_rps <= w /\ w <= max_angular_rps
            /\ SubSeq(blast.frame, 1, 5) = <<170, 85, 1, 0, 8>>
            /\ SubSeq(blast.frame, 6, 9) = pack_f32(v)
            /\ SubSeq(blast.frame, 10, 13) = pack_f32(w)

C16_Witness ==
    /\ blast.op = "step"
    /\ cs.teleop.v_cmd = 8750
    /\ cs.teleop.w_cmd = -31250
    /\ blast.mode = "teleop"
    /\ SubSeq(blast.frame, 6, 13) = pack_f32(max_linear_mps) \o pack_f32(-max_angular_rps)

\* C17: after a write or read failure has torn the link down at time t, no
\* attempt to open the port is made before t + reconnect_interval_s.
C17_BackoffAfterFailure ==
    bhist.since_torn = -1 \/ bhist.since_torn >= reconnect_interval_s

\* C18: any two consecutive attempts to open the port are at least
\* reconnect_interval_s apart, whether the earlier one succeeded or failed.
C18_OpenAttemptsApart ==
    bhist.since_open = -1 \/ bhist.since_open >= reconnect_interval_s

C18_Witness ==
    /\ blast.op = "step"
    /\ blast.attempted
    /\ bhist.torn
    /\ bhist.since_open = reconnect_interval_s
    /\ bhist.open_at = mono

\* C19: no failure of the serial port leaves step(); after one the bridge
\* holds no open handle, and a step that does not get the port open neither
\* writes nor reads.
C19_FailuresAbsorbed ==
    blast.op = "step" =>
        /\ ~blast.raised
        /\ blast.torn => bridge.ser = "none"
        /\ ~blast.link_up =>
              (bridge.ser = "none" /\ blast.frame = <<>> /\ blast.read = "none")

\* The control loop keeps stepping while time passes, and the peer keeps
\* sending whole valid frames
LoopAndPeerKeepGoing ==
    /\ []<>(blast.op = "step")
    /\ []<>(blast.op = "none")
    /\ []<>(pline = <<>>)
    /\ []<>(pline # <<>>)

\* C9: with the serial port working, whatever bytes were left in the serial
\* input ahead of an unbroken stream of valid telemetry frames, repeated
\* step() calls eventually accept a frame (update_telemetry is called).
C9_EventuallyAccepts == LoopAndPeerKeepGoing => <>(cs.telemetry.valid)

-----------------------------------------------------------------------------
(* The framing specification: a message id and a payload are framed by both  *)
(* ends' _build_packet(); the host's bytes reach the motor-control unit's    *)
(* UART in pieces while its main loop calls poll_cmd().                      *)

\* Length of the payload that needs both length bytes
LongPayload == 257

FrameIds == {0, MSG_ID_VELOCITY_CMD, MSG_ID_CLEAR_ESTOP_CMD, START2, START1, 255}

ShortPayloads ==
    {<<>>, <<0>>, <<START1, START2>>, <<255, 255, 255>>,
     pico_build_packet(MSG_ID_VELOCITY_CMD, <<7>>)}

FrameInputs ==
    {[msg_id |-> m, payload |-> p] : m \in FrameIds, p \in ShortPayloads}
    \cup {[msg_id |-> MSG_ID_VELOCITY_CMD, payload |-> [i \in 1..LongPayload |-> (3 * i) % 256]]}

RoundTripScenarios ==
    {[kind |-> "roundtrip", bytes |-> <<>>, must |-> <<x>>, pico |-> <<>>] : x \in FrameInputs}

RoundTripChunks == {1, 3, LongPayload + 6}

\* Both ends frame the message; the host's frame goes on the wire
BuildFrames ==
    /\ scen.kind = "roundtrip"
    /\ scen.bytes = <<>>
    /\ LET x == scen.must[1]
       IN  /\ scen' = [scen EXCEPT !.bytes = host_build_packet(x.msg_id, x.payload),
                                   !.pico = pico_build_packet(x.msg_id, x.payload)]
           /\ tape' = host_build_packet(x.msg_id, x.payload)
    /\ UNCHANGED <<uart_rx, rx_buf, plink, pcalls, delivered, plast, pseen>>
    /\ UNCHANGED <<driveVars, arbVars, bridgeVars>>

InitFrame ==
    /\ ArbiterAtRest
    /\ DriveAtRest
    /\ BridgeAtRest
    /\ scen \in RoundTripScenarios
    /\ tape = <<>>
    /\ uart_rx = <<>>
    /\ rx_buf = <<>>
    /\ plink = NewLink
    /\ pcalls = <<>>
    /\ delivered = <<>>
    /\ plast = NoPoll
    /\ pseen = {}

NextFrame ==
    \/ BuildFrames
    \/ \E k \in RoundTripChunks : UartArrive(k)
    \/ LPoll

SpecFrame == InitFrame /\ [][NextFrame]_vars

-----------------------------------------------------------------------------
(* Claims about the motor-control unit's serial link, checked under SpecLink *)

\* Everything sent has arrived and been read, and a further poll_cmd() found
\* nothing more to do
Settled == tape = <<>> /\ uart_rx = <<>> /\ plast.op = "poll" /\ plast.quiet

\* The last byte of a frame is the sum of its MSG_ID, length bytes and payload
\* bytes modulo 256
ChecksumHolds(f) ==
    /\ Len(f) >= 6
    /\ f[Len(f)] = SumSeq(SubSeq(f, 3, Len(f) - 1)) % 256

\* The link's stored last command is the one carried by frame f
LastCommandIn(f) ==
    /\ Len(f) >= Len(FrameGo)
    /\ plink.last_cmd_v = SubSeq(f, HEADER_SIZE + 7, HEADER_SIZE + 10)
    /\ plink.last_cmd_omega = SubSeq(f, HEADER_SIZE + 11, HEADER_SIZE + 14)

\* C6: poll_cmd() calls update_cmd_vel only for a frame whose checksum byte is
\* the sum of MSG_ID, both length bytes and all payload bytes modulo 256, and
\* a poll_cmd() call that only meets a frame failing its checksum changes
\* neither the calls made to the controller nor the link's last command.
C6_NoCorruptCommand ==
    /\ \A i \in 1..Len(pcalls) : ChecksumHolds(pcalls[i].frame)
    /\ \/ plink = NewLink
       \/ \E i \in 1..Len(pcalls) : LastCommandIn(pcalls[i].frame)
    /\ plast.op = "poll" =>
          /\ Len(pcalls) - plast.before_ncalls <= plast.dispatched
          /\ plast.dispatched = 0 =>
                /\ Len(pcalls) = plast.before_ncalls
                /\ plink = plast.before_link

C6_Witness ==
    /\ scen.kind = "altered"
    /\ plast.op = "poll"
    /\ plast.end_kind = "checksum_error"
    /\ plast.dispatched = 0
    /\ Len(plast.frame) = Len(FrameGo)
    /\ plast.frame[3] = MSG_ID_VELOCITY_CMD
    /\ plast.frame[HEADER_SIZE + 7] # FrameGo[HEADER_SIZE + 7]
    /\ pcalls = <<>>

\* C7: when a frame with exactly one byte altered is followed by valid frames,
\* the decoder delivers the following frames, all of them, and nothing else.
C7_LaterFramesSurvive ==
    (scen.kind = "altered" /\ Settled) => delivered = scen.must

\* C8: a valid frame that begins inside the span of a candidate rejected for
\* its checksum is still delivered, and so is the frame after it.
C8_NestedFrameDelivered ==
    (scen.kind = "nested" /\ Settled) => delivered = scen.must

\* C13: a velocity frame as the host bridge writes it, arriving uncorrupted,
\* is accepted by the link and makes it call update_cmd_vel(linear, angular)
\* with the two values of the frame.
C13_HostFrameDrives ==
    (scen.kind = "clean" /\ delivered # <<>> /\ delivered[1] = Carried(FrameHost)) =>
        /\ pcalls # <<>>
        /\ pcalls[1] = [v |-> pack_f32(2500), w |-> pack_f32(6250), frame |-> FrameHost]

\* C14: update_cmd_vel is called only for a velocity frame whose declared
\* length is the size of a velocity command payload.
C14_LengthChecked ==
    \A i \in 1..Len(pcalls) :
        LET f == pcalls[i].frame
        IN  f[4] * 256 + f[5] = HEADER_SIZE + VELOCITY_BODY_SIZE

\* C10: a poll that ends on an incomplete frame leaves the buffer holding the
\* whole candidate, start bytes first, and whole frames that arrive in pieces
\* over any number of reads are all delivered intact.
C10_IncompleteHeld ==
    /\ (plast.op = "poll" /\ plast.end_kind = "incomplete") =>
          /\ rx_buf = plast.cand
          /\ Len(rx_buf) >= 5
          /\ rx_buf[1] = START1 /\ rx_buf[2] = START2
          /\ Len(rx_buf) < rx_buf[4] * 256 + rx_buf[5] + 6
    /\ (scen.kind = "clean" /\ Settled) =>
          /\ delivered = scen.must
          /\ rx_buf = <<>>

C10_Witness ==
    /\ scen.kind = "clean"
    /\ Settled
    /\ "incomplete" \in pseen
    /\ Len(delivered) = 2
    /\ delivered = scen.must

-----------------------------------------------------------------------------
(* Claims about the framing, checked under SpecFrame *)

\* The frame has been built and all of it has arrived and been read
AllRead == scen.bytes # <<>> /\ tape = <<>> /\ uart_rx = <<>>

\* C11: the bytes _build_packet() produces for a message id and a payload,
\* arriving in an empty receive buffer in any division into chunks, are decoded
\* into exactly one frame with that id and payload, and the buffer is empty
\* afterwards; nothing is decoded before the last byte has arrived.
C11_RoundTrip ==
    scen.kind = "roundtrip" =>
        /\ delivered # <<>> => AllRead
        /\ AllRead => (delivered = scen.must /\ rx_buf = <<>>)

C11_Witness ==
    /\ scen.kind = "roundtrip"
    /\ AllRead
    /\ Len(scen.must[1].payload) = LongPayload
    /\ {"short", "incomplete"} \subseteq pseen
    /\ delivered = scen.must
    /\ rx_buf = <<>>

\* C12: for every message id and payload the host's and the controller's
\* _build_packet() produce the same bytes: 0xAA, 0x55, MSG_ID, length high
\* byte, length low byte, payload, checksum, with length = len(payload) and
\* checksum = (MSG_ID + LEN_HI + LEN_LO + sum of payload bytes) mod 256.
C12_SameLayout ==
    (scen.kind = "roundtrip" /\ scen.bytes # <<>>) =>
        LET f == scen.bytes
            x == scen.must[1]
            n == Len(x.payload)
        IN  /\ f = scen.pico
            /\ Len(f) = n + 6
            /\ f[1] = 170 /\ f[2] = 85 /\ f[3] = x.msg_id
            /\ f[4] \in 0..255 /\ f[5] \in 0..255
            /\ f[4] * 256 + f[5] = n
            /\ SubSeq(f, 6, n + 5) = x.payload
            /\ f[n + 6] = (x.msg_id + f[4] + f[5] + SumSeq(x.payload)) % 256

C12_Witness ==
    /\ scen.kind = "roundtrip"
    /\ scen.bytes = scen.pico
    /\ Len(scen.bytes) = LongPayload + 6
    /\ scen.bytes[4] = 1
    /\ scen.bytes[3] + 1 + scen.bytes[5] + SumSeq(scen.must[1].payload) > 255

-----------------------------------------------------------------------------
(* Claims about the drivetrain, checked under SpecDrive *)

\* Every duty value written to the PWM of side s during the last operation is 0
OnlyZeroDutyWritten(s) ==
    /\ motors[s].chan.writes # <<>>
    /\ \A i \in 1..Len(motors[s].chan.writes) : motors[s].chan.writes[i] = 0

\* C1: Timeout fail-safe.  Whatever (linear, angular) was commanded last, an
\* update_motors() call that reads the clock when more than cmd_vel_timeout_ms
\* has elapsed since the last update_cmd_vel() leaves both motor targets at 0,
\* has written only zero duty, has braked both channels, has set the timeout
\* flag, and has neither computed the kinematics nor run a PID compute().
C1_TimeoutFailSafe ==
    (dlast.op = "update_motors" /\ dlast.elapsed > cmd_vel_timeout_ms) =>
        /\ ctrl.timeout_flag
        /\ ~dlast.kinematics
        /\ ctrl.last_target_rpm = <<0, 0>>
        /\ \A s \in Sides :
              /\ motors[s].target_rpm = 0
              /\ motors[s].chan.duty = 0
              /\ OnlyZeroDutyWritten(s)
              /\ motors[s].chan.braked
              /\ motors[s].chan.in1 = 1 /\ motors[s].chan.in2 = 1
              /\ motors[s].controller.computes = 0

\* The duty values of side s in the order they reached the PWM: the one in
\* force before the last operation, then those the operation wrote
DutyTrace(s) ==
    <<dlast.prev_duty[IF s = "L" THEN 1 ELSE 2]>> \o motors[s].chan.writes

\* C20: whatever targets a motor is given, to zero, from zero and reversals
\* included, any two consecutive duty values written to its PWM channel differ
\* by at most the slew limit.
C20_SlewAtActuator ==
    dlast.op = "update_motors" =>
        \A s \in Sides : \A i \in 1..(Len(DutyTrace(s)) - 1) :
            Abs(DutyTrace(s)[i + 1] - DutyTrace(s)[i]) <= slewrate

\* C26: once update_motors() has taken its timeout, every later update_motors()
\* call takes it too until update_cmd_vel() is called, however much time has
\* passed in between, a wrap of the tick counter included.
C26_TimeoutLatches ==
    (dlast.op = "update_motors" /\ dhist.was_latched) => dlast.branch = "timeout"

-----------------------------------------------------------------------------
(* Claims about the PID controller, checked under SpecPid *)

\* C21: with a slew rate configured, the values two consecutive compute()
\* calls return, with no reset() between them, differ by at most the slew
\* rate, whatever the targets, measurements and time steps; the final clamp
\* and the conversion to an integer do not widen the step.
C21_SlewBetweenComputes ==
    (dhist.op = "compute" /\ dhist.paired) =>
        Abs(dhist.out - dhist.prev_out) <= slewrate

\* C21 witness: a compute() whose slew-limited value was cut short by the clamp
\* at duty_max, after an earlier compute() and no reset()
C21_Witness ==
    /\ dhist.op = "compute"
    /\ dhist.paired
    /\ dhist.out = duty_max
    /\ dhist.prev_out < duty_max
    /\ dhist.prev_out + slewrate > duty_max

\* C24: reset() leaves integral, last_error and last_output all at zero,
\* whatever the output bounds of the controller are.
C24_ResetZeroes ==
    dhist.op = "reset" =>
        /\ motors["L"].controller.integral = 0
        /\ motors["L"].controller.last_error = 0
        /\ motors["L"].controller.last_output = 0

-----------------------------------------------------------------------------
(* Claims about the motor, checked under SpecMotor *)

\* C22: every value compute() returns and every duty Motor.step() writes lies
\* in [duty_min, duty_max], whatever the target, the measured speed, the time
\* step and the earlier history of the controller.
C22_OutputInRange ==
    dlast.op = "step" =>
        /\ \A i \in 1..Len(motors["L"].chan.writes) :
              /\ motors["L"].chan.writes[i] >= duty_min
              /\ motors["L"].chan.writes[i] <= duty_max
        /\ motors["L"].controller.computes > 0 =>
              /\ motors["L"].controller.last_output >= duty_min
              /\ motors["L"].controller.last_output <= duty_max
              /\ motors["L"].chan.writes = <<motors["L"].controller.last_output>>

\* C22 witness: a step() that ran compute() and wrote duty_max
C22_Witness ==
    /\ dlast.op = "step"
    /\ motors["L"].controller.computes = 1
    /\ motors["L"].chan.writes = <<duty_max>>

\* C23: while the target of a motor is zero its duty is 0, the operation just
\* performed (the setter, step(), brake(), get_diagnostics(), an encoder edge)
\* has written no nonzero duty, and the PID integral and last error are zero.
C23_ZeroTargetZeroOutput ==
    motors["L"].target_rpm = 0 =>
        /\ motors["L"].chan.duty = 0
        /\ \A i \in 1..Len(motors["L"].chan.writes) : motors["L"].chan.writes[i] = 0
        /\ motors["L"].controller.integral = 0
        /\ motors["L"].controller.last_error = 0

\* C23 witness: step() was called when due on a motor that has run, has a zero
\* target and whose encoder reports a nonzero speed
C23_Witness ==
    /\ dlast.op = "step"
    /\ motors["L"].target_rpm = 0
    /\ dhist.ran
    /\ motors["L"].encoder.rpm.n # 0
    /\ ticks_diff(ticks, motors["L"].last_time) >= min_loop_ms

\* C25: whenever the target of a motor goes from nonzero to zero, the
\* encoder's sample window is empty and its cached RPM is zero afterwards.
C25_EncoderClearedOnStop ==
    (dlast.op \in {"set_target", "brake"} /\ dhist.prev_target # 0
        /\ motors["L"].target_rpm = 0) =>
        /\ motors["L"].encoder.samples = <<>>
        /\ motors["L"].encoder.rpm.n = 0

-----------------------------------------------------------------------------
(* Claims about the encoder, checked under SpecEncoder *)

\* C27: each edge changes the tick counter by exactly one, up when the levels
\* of A and B are equal and down when they differ, so the counter is the
\* number of edges seen with A = B minus the number seen with A # B since the
\* last reset.
C27_QuadratureCount ==
    /\ motors["L"].encoder.count = dhist.up - dhist.down
    /\ dlast.op = "on_edge" =>
          motors["L"].encoder.count - dhist.prev_count =
              (IF dhist.edge[1] = dhist.edge[2] THEN 1 ELSE -1)

\* C27 witness: after a reset, edges in both directions have been counted, the
\* last one downwards with A high and B low
C27_Witness ==
    /\ dlast.op = "on_edge"
    /\ dhist.was_reset
    /\ dhist.up >= 1
    /\ dhist.down >= 2
    /\ dhist.edge = <<1, 0>>

\* C28: under every interleaving of the edge interrupt with update_rpm() no
\* tick is lost or counted twice: the deltas the calls recorded since the last
\* reset add up to the counter value the latest call read, which is what
\* _last_count holds, and together with the edges counted after that read they
\* account for every edge; a read of the ticks property gives the number of
\* edges up minus the number of edges down.
C28_NoTickLost ==
    /\ dhist.pc # "reset_now" => dhist.recorded = motors["L"].encoder.last_count
    /\ dhist.pc \in {"idle", "count", "diag_now", "diag_test", "diag_age"} =>
          dhist.recorded + dhist.after_read = dhist.up - dhist.down
    /\ dhist.pc = "read" =>
          dhist.loc.curr_count + dhist.after_read = dhist.up - dhist.down
    /\ dlast.op = "ticks" => dlast.diff = dhist.up - dhist.down

\* C28 witness: an update_rpm() has finished that recorded ticks and during
\* which, after its read of the counter, an edge was counted
C28_Witness ==
    /\ dlast.op = "update_rpm"
    /\ dlast.branch = "commit"
    /\ dhist.recorded # 0
    /\ dhist.after_read # 0
    /\ dhist.last_tick_at > dhist.loc.now_ms

\* C29: the edge interrupt handler changes nothing of the encoder but the tick
\* counter.
C29_EdgeChangesCountOnly ==
    [][dlast'.op = "on_edge" =>
          [motors'["L"].encoder EXCEPT !.count = 0] =
              [motors["L"].encoder EXCEPT !.count = 0]]_vars

\* C30: when the last tick came more than window_ms before an update_rpm()
\* call, that call leaves the RPM at exactly zero.
C30_OldTicksDropped ==
    (dlast.op = "update_rpm" /\ dlast.branch = "commit"
        /\ dhist.last_tick_at >= 0
        /\ dhist.loc.now_ms - dhist.last_tick_at > window_ms) =>
        motors["L"].encoder.rpm.n = 0

\* C31: get_diagnostics() reports stale_rpm exactly when the last edge was
\* observed more than three window durations ago, however often update_rpm()
\* has been called.
C31_StaleFollowsEdges ==
    (dlast.op = "get_diagnostics" /\ dhist.last_tick_at >= 0) =>
        (dlast.diag.stale_rpm <=>
            dhist.dloc.now_ms - dhist.last_tick_at > 3 * window_ms)

\* C34: after an EMERGENCY_STOP command has been handled, no later command
\* makes the commanded velocity nonzero unless a ClearEstop request has been
\* received since.
C34_EstopHolds ==
    \A i \in 1..Len(pcalls) : \A j \in 1..Len(pcalls) :
        (i < j /\ pcalls[i].frame = FrameEstop /\ ~plink.clear_requested) =>
            /\ pcalls[j].v = ZeroF32
            /\ pcalls[j].w = ZeroF32

\* C38: a poll_cmd() call leaves no complete frame with a valid checksum at the
\* head of the receive buffer, also when it met a corrupt frame before it.
C38_PollHandlesAll ==
    plast.op = "poll" => try_extract_packet(rx_buf).msg_id = -1

-----------------------------------------------------------------------------
(* Claims about the kinematics, checked under SpecKinematics *)

\* The largest difference counted as floating-point error, in millionths of a
\* metre per second and of a radian per second
tolerance_micro == 1

\* C32: for every (v, omega) of the operating range, the inverse transform
\* applied to the wheel RPM pair compute_wheel_rpms() returned gives (v, omega)
\* back to within floating-point tolerance.
C32_KinematicsRoundTrip ==
    (dhist.stage = "inverse" /\ dhist.C > 0) =>
        /\ Abs(dhist.body[1] - 12000 * ctrl.linear) <= 12 * tolerance_micro
        /\ Abs(dhist.body[2] - 6000 * wheel_separation * ctrl.angular) * 500
              <= 3 * wheel_separation * tolerance_micro

\* C33: a controller is never constructed with a wheel circumference of zero
\* or less, so no compute_wheel_rpms() call divides by one.
C33_GeometryValidated ==
    dhist.stage \in {"constructed", "commanded", "forward", "inverse"} =>
        dhist.C > 0


-----------------------------------------------------------------------------
(* Bookkeeping of the last frame sent                                        *)

\* The step just made attempted a velocity frame and ser.write raised
WriteFailed == blast.op = "step" /\ blast.frame # <<>> /\ ~blast.written

\* C39: a step() whose ser.write raised leaves last_sent and the send time as
\* it found them, a step() whose write returned has set them to the value it
\* wrote and to a clock value read during the step, and the step() that
\* follows a failed write with the same command on a link that is up writes
\* the frame again.
C39_LastSentOnSuccessOnly ==
    blast.op = "step" =>
        /\ WriteFailed =>
               /\ bridge.last_sent = blast.prev_sent
               /\ bridge.last_send_ts = blast.prev_send_ts
        /\ blast.written =>
               /\ bridge.last_sent = blast.cmd
               /\ blast.now <= bridge.last_send_ts
               /\ bridge.last_send_ts <= mono
        /\ (blast.unsent # <<>> /\ blast.link_up
               /\ velocity_frame(blast.cmd[1], blast.cmd[2]) = blast.unsent) =>
               blast.frame = blast.unsent

\* A heartbeat write failed after an earlier frame had gone out: the send
\* time is still that of the earlier frame
C39_Witness ==
    /\ WriteFailed
    /\ blast.why = "heartbeat"
    /\ bridge.last_sent = blast.cmd
    /\ bridge.ser = "none"
    /\ mono - bridge.last_send_ts >= heartbeat_s

-----------------------------------------------------------------------------
(* A CommandState that was never updated                                     *)

\* No update_teleop or update_auto call has started
NeverUpdated == \A s \in {"teleop", "auto"} : hist[s] = {<<0, 0>>}

\* C40: while no update has ever been made, get_current_command() returns mode
\* idle and get_status_snapshot() returns mode idle with both sources
\* inactive, at every value of the clock, those below the source timeouts
\* included.
C40_FreshStateIdle ==
    \A t \in Threads :
        (NeverUpdated /\ thr[t].pc = "release") =>
            /\ thr[t].call = "get_current_command" => thr[t].ret[3] = "idle"
            /\ thr[t].call = "get_status_snapshot" =>
                   /\ thr[t].ret[1] = "idle"
                   /\ ~thr[t].ret[4]
                   /\ ~thr[t].ret[7]

-----------------------------------------------------------------------------
(* Recovery of the drivetrain from a command timeout, checked under SpecDrive *)

\* The wheel targets compute_wheel_rpms() can give side s for the command in
\* force
WheelTargets(s) == {rpm[IF s = "L" THEN 1 ELSE 2] : rpm \in compute_wheel_rpms(ctrl)}

\* C36: an update_motors() call made no later than cmd_vel_timeout_ms after the
\* last update_cmd_vel() runs the command: it leaves the timeout flag and the
\* COMMAND_TIMEOUT bit of get_drive_feedback() clear, whether or not the flag
\* was set before, and gives each wheel the target and the direction computed
\* from the command in force; and the flag is clear while an update_motors()
\* call runs a command and when it returns.
C36_RecoveryFromTimeout ==
    /\ (dlast.op = "update_motors" /\ dlast.elapsed <= cmd_vel_timeout_ms) =>
           /\ dlast.branch = "run"
           /\ ~ctrl.timeout_flag
           /\ get_drive_feedback(ctrl, motors).status_flags % (2 * COMMAND_TIMEOUT)
                 < COMMAND_TIMEOUT
           /\ \A s \in Sides : \E w \in WheelTargets(s) :
                 /\ motors[s].target_rpm = Abs(w)
                 /\ motors[s].chan.dir = IF w >= 0 THEN 1 ELSE -1
    /\ (dlast.op \in {"busy", "update_motors"} /\ dlast.branch = "run") =>
           ~ctrl.timeout_flag

\* An update_motors() call that found the flag set by an earlier timeout and
\* ran a turning command given cmd_vel_timeout_ms before it
C36_Witness ==
    /\ dlast.op = "update_motors"
    /\ dlast.prev_flag
    /\ dlast.elapsed = cmd_vel_timeout_ms
    /\ ctrl.linear = -10
    /\ ctrl.angular = 1
    /\ ~ctrl.timeout_flag
    /\ motors["L"].target_rpm # motors["R"].target_rpm
    /\ motors["L"].chan.dir = -1

-----------------------------------------------------------------------------
(* Claims about drive_distance(), checked under SpecDistance *)

\* drive_distance() has passed its argument checks and has not returned
InMove == dhist.pc \notin {"idle", "raised", "returned", "cut"}

\* C35: a drive_distance() call with a timeout returns, whether or not the
\* encoder count advances (it is followed for MaxDistPasses passes of its
\* loop at most); a timeout test made when the time elapsed since start_ms
\* has reached the timeout ends the loop, and the timeout test ends it only
\* then; the distance test ends it only when |ticks| has reached the pulse
\* count; and on return the target is zero, the duty is zero and the channel
\* is braked.
C35_DistanceMoveEnds ==
    /\ [](dhist.pc = "sleep" => dhist.seen < dhist.timeout_ms)
    /\ [](dhist.why = "timeout" => dhist.seen >= dhist.timeout_ms)
    /\ [](motors["L"].encoder.count = dhist.net \/ dhist.pc \in {"idle", "raised"})
    /\ [](dhist.why = "distance" => Abs(dhist.net_at_test) >= dhist.pulses)
    /\ [](dhist.pc = "returned" =>
              /\ motors["L"].target_rpm = 0
              /\ motors["L"].chan.duty = 0
              /\ motors["L"].chan.braked)
    /\ InMove ~> dhist.pc \in {"returned", "cut"}

-----------------------------------------------------------------------------
(* Idle time and the integral, checked under SpecMotor *)

\* C37: the first compute() that step() runs after the target has left zero
\* is given a dt no longer than the time since the target left zero, and adds
\* to the integral at most the error times that time.
C37_IdleTimeNotIntegrated ==
    (dlast.op = "step" /\ dhist.was_fresh /\ motors["L"].controller.computes = 1) =>
        /\ dlast.diff <= dhist.since_nonzero
        /\ Abs(motors["L"].controller.integral)
              <= Abs(motors["L"].controller.last_error) * dhist.since_nonzero
====
